---- MODULE Spec2Model ----
(***************************************************************************)
(* Verification model of timesheet-mcp: the MCP tool dispatcher and its    *)
(* handlers (TimesheetMCPServer), the stateless HTTP entry point, and the  *)
(* statistics aggregator (computeStatistics).                              *)
(*                                                                         *)
(* Texts built with template literals are modelled as sequences of their   *)
(* fragments; JavaScript `undefined`/`null` is the string "undefined".     *)
(***************************************************************************)
EXTENDS Integers, Sequences, FiniteSets, TLC

\* ------------------------------------------------------------------ bounds
\* tool calls served by the long-lived (stdio) server instance
MaxCalls == 2
\* concurrent POST requests of the stateless HTTP server
MaxReq == 2

VARIABLES
    env,    \* process.env as read by getClient
    srv,    \* TimesheetMCPServer instances: oauthToken, client
    http,   \* per request slot: the state of app.post for that request
    call,   \* per request slot: the tool call being executed
    stats,  \* the statistics aggregator: its input and its result
    widget  \* the timer widget: view history, timer status, timer actions

vars == <<env, srv, http, call, stats, widget>>

Slot == 1..MaxReq
Inst == 1..MaxReq
StdioSlot == 1

Undefined == "undefined"
None == [kind |-> "none"]

\* JavaScript truthiness of a string-or-undefined value
Truthy(v) == v \notin {Undefined, ""}

\* ------------------------------------------------------------ tool table
H(k, o, a) == [kind |-> k, op |-> o, args |-> a]

\* name -> handler shape.  kind: "withUser" = Promise.all([primary,
\* getProfileAndSettings()]), "single" = one awaited call, "enhance" = timer
\* fetch then create, "stats" = paginated search, "auth" = auth_configure.
\* args: "destructure" = `const {...} = args` before the try block,
\* "beforeCall"/"afterCall" = args.x read inside the try block, "pass" = args
\* only handed on.
Handlers ==
    ( "timer_start"  :> H("withUser", "timer.start",  "destructure") ) @@
    ( "timer_stop"   :> H("withUser", "timer.stop",   "destructure") ) @@
    ( "timer_pause"  :> H("withUser", "timer.pause",  "destructure") ) @@
    ( "timer_resume" :> H("withUser", "timer.resume", "destructure") ) @@
    ( "timer_status" :> H("withUser", "timer.get",    "pass") ) @@
    ( "timer_update" :> H("withUser", "timer.update", "pass") ) @@
    ( "task_add_note"    :> H("enhance", "notes.create",    "destructure") ) @@
    ( "task_add_expense" :> H("enhance", "expenses.create", "destructure") ) @@
    ( "task_add_pause"   :> H("enhance", "pauses.create",   "destructure") ) @@
    ( "team_list"      :> H("single",   "teams.list",      "pass") ) @@
    ( "project_list"   :> H("withUser", "projects.list",   "afterCall") ) @@
    ( "project_create" :> H("single",   "projects.create", "pass") ) @@
    ( "project_update" :> H("single",   "projects.update", "destructure") ) @@
    ( "project_delete" :> H("single",   "projects.delete", "destructure") ) @@
    ( "project_get"    :> H("single",   "projects.get",    "destructure") ) @@
    ( "task_list"   :> H("withUser", "tasks.search", "beforeCall") ) @@
    ( "task_create" :> H("single",   "tasks.create", "pass") ) @@
    ( "task_update" :> H("single",   "tasks.update", "destructure") ) @@
    ( "task_delete" :> H("single",   "tasks.delete", "destructure") ) @@
    ( "task_get"    :> H("single",   "tasks.get",    "destructure") ) @@
    ( "statistics_get" :> H("stats", "tasks.search", "destructure") ) @@
    ( "auth_configure" :> H("auth",  "none",         "destructure") ) @@
    ( "report_document_get" :> H("single", "reports.documents.get",    "destructure") ) @@
    ( "report_document_pdf" :> H("single", "reports.documents.getPdf", "destructure") ) @@
    ( "report_document_xml" :> H("single", "reports.documents.getXml", "destructure") ) @@
    ( "report_task_get"     :> H("single", "reports.tasks.get",        "destructure") ) @@
    ( "report_task_pdf"     :> H("single", "reports.tasks.getPdf",     "destructure") ) @@
    ( "report_expense_get"  :> H("single", "reports.expenses.get",     "destructure") ) @@
    ( "report_expense_pdf"  :> H("single", "reports.expenses.getPdf",  "destructure") ) @@
    ( "report_note_get"     :> H("single", "reports.notes.get",        "destructure") ) @@
    ( "report_note_pdf"     :> H("single", "reports.notes.getPdf",     "destructure") ) @@
    ( "export_generate"      :> H("single", "reports.export.generate",             "destructure") ) @@
    ( "export_send"          :> H("single", "reports.export.send",                 "destructure") ) @@
    ( "export_from_template" :> H("single", "reports.export.generateFromTemplate", "destructure") ) @@
    ( "export_fields"        :> H("single", "reports.export.getFields",            "destructure") ) @@
    ( "export_report_types"  :> H("single", "reports.export.getReportTypes",       "pass") ) @@
    ( "export_template_list"   :> H("single", "reports.export.listTemplates",  "destructure") ) @@
    ( "export_template_get"    :> H("single", "reports.export.getTemplate",    "destructure") ) @@
    ( "export_template_create" :> H("single", "reports.export.createTemplate", "destructure") ) @@
    ( "export_template_update" :> H("single", "reports.export.updateTemplate", "destructure") ) @@
    ( "export_template_delete" :> H("single", "reports.export.deleteTemplate", "destructure") )

\* the case labels of the dispatcher's switch
RegisteredTools == DOMAIN Handlers

EnhancementTools == {"task_add_note", "task_add_expense", "task_add_pause"}
CreateOps == {"notes.create", "expenses.create", "pauses.create"}
TimerOps == {"timer.start", "timer.stop", "timer.pause", "timer.resume",
             "timer.get", "timer.update"}

\* names a caller may send that the switch has no case for
UnknownTools == {"timer_restart", "TIMER_START", ""}


\* ------------------------------------------------------- errors, responses
McpError(code, message) == [class |-> "McpError", code |-> code, message |-> message]

\* thrown by `const { ... } = args` when the request carries no arguments
DestructureError ==
    [class |-> "TypeError", code |-> "none",
     message |-> <<"Cannot destructure property of 'args' as it is undefined.">>]

\* thrown by `args.x` when the request carries no arguments
PropertyError ==
    [class |-> "TypeError", code |-> "none",
     message |-> <<"Cannot read properties of undefined">>]

NoResponse == [present |-> FALSE, status |-> Undefined, message |-> Undefined]

\* what an upstream call of the client SDK may reject with: an HTTP error
\* (response with or without status / data.message) or a plain Error
ApiErrors ==
    { [response |-> r, message |-> m] :
        r \in {NoResponse} \cup
              { [present |-> TRUE, status |-> st, message |-> dm] :
                    st \in {Undefined, "401"},
                    dm \in {Undefined, "Invalid API token"} },
        m \in {Undefined, "Network error"} }

\* a thrown JavaScript Error seen by handleApiError: no response, own message
AsApiError(e) == [response |-> NoResponse, message |-> e.message[1]]

NoStructured == [shape |-> "none", status |-> Undefined, taskId |-> Undefined,
                 profile |-> Undefined, settings |-> Undefined, totalTasks |-> 0]

Response(text, isError, structured) ==
    [kind |-> "response", text |-> text, isError |-> isError,
     structured |-> structured, error |-> None]

Thrown(e) ==
    [kind |-> "throw", text |-> <<>>, isError |-> FALSE,
     structured |-> NoStructured, error |-> e]

\* handleApiError without the status part
handleApiError_NoStatus(error) ==
    LET errorMessage ==
            IF error.response.present /\ Truthy(error.response.message)
            THEN error.response.message
            ELSE IF Truthy(error.message) THEN error.message
            ELSE "Unknown error"
    IN  Response(<<"API Error", ": ", errorMessage>>, TRUE, NoStructured)

\* part_000:3783-3796
handleApiError(error) ==
    LET errorMessage ==
            IF error.response.present /\ Truthy(error.response.message)
            THEN error.response.message
            ELSE IF Truthy(error.message) THEN error.message
            ELSE "Unknown error"
        statusCode ==
            IF error.response.present THEN error.response.status ELSE Undefined
    IN  Response(<<"API Error">>
                 \o (IF Truthy(statusCode) THEN <<" (", statusCode, ")">> ELSE <<>>)
                 \o <<": ", errorMessage>>,
                 TRUE, NoStructured)

\* the precondition failure of the enhancement tools, part_000:2525-2533
NoRunningTimer ==
    Response(<<"No running timer found. Please start a timer first.">>,
             TRUE, NoStructured)

\* -------------------------------------------------------------- upstream
NoTask == [id |-> Undefined, duration |-> 0]

\* timer objects the upstream API may return
Timers ==
    { [status |-> st, task |-> t] :
        st \in {"running", "paused", "stopped"},
        t \in {NoTask, [id |-> "task-1", duration |-> 3725]} }

NumStr == (0 :> "0") @@ (1 :> "1") @@ (2 :> "2") @@ (3 :> "3")

\* a number property that is missing from its object
NoNumber == -1

\* `v || 0` for a number that may be missing
OrZero(v) == IF v = NoNumber THEN 0 ELSE v

\* the text lines of formatTimerResponse, part_002:70-82
TimerText(timerData) ==
    <<"Timer status: ", timerData.status>>
    \o (IF Truthy(timerData.projectTitle)
        THEN <<"\nProject: ", timerData.projectTitle>> ELSE <<>>)
    \o (IF Truthy(timerData.description)
        THEN <<"\nDescription: ", timerData.description>> ELSE <<>>)
    \o (IF timerData.duration # NoNumber
        THEN <<"\nDuration: ", NumStr[OrZero(timerData.hours)], "h ",
               NumStr[OrZero(timerData.minutes)], "m">>
        ELSE <<>>)

\* part_000:2452-2484
formatCompleteTimerData(timer) ==
    LET duration == IF timer.task.id = Undefined THEN 0 ELSE timer.task.duration
    IN  [status |-> timer.status,
         duration |-> duration,
         hours |-> duration \div 3600,
         minutes |-> (duration % 3600) \div 60,
         taskId |-> timer.task.id,
         \* not among the properties of the returned object
         projectTitle |-> Undefined,
         description |-> Undefined]

\* formatTimerResponse with a structured content that leaves the status out
formatTimerResponse_NoStatus(timerData, profile, settings) ==
    Response(TimerText(timerData),
             FALSE,
             [shape |-> "timer", status |-> Undefined,
              taskId |-> timerData.taskId,
              profile |-> profile, settings |-> settings, totalTasks |-> 0])

\* part_002:68-101
formatTimerResponse(timerData, profile, settings) ==
    Response(TimerText(timerData),
             FALSE,
             [shape |-> "timer", status |-> timerData.status,
              taskId |-> timerData.taskId,
              profile |-> profile, settings |-> settings, totalTasks |-> 0])

\* the success envelopes of the remaining handlers
OkResponse(name, profile, settings, totalTasks) ==
    Response(<<name, " ok">>, FALSE,
             [shape |-> "ok", status |-> Undefined, taskId |-> Undefined,
              profile |-> profile, settings |-> settings, totalTasks |-> totalTasks])

\* ---------------------------------------------------------- server state
NoServer == [made |-> FALSE, oauthToken |-> Undefined, client |-> None, open |-> FALSE]

\* new TimesheetMCPServer(options), part_000:52-69
NewServer(oauthToken) ==
    [made |-> TRUE, oauthToken |-> oauthToken, client |-> None, open |-> TRUE]

\* new TimesheetClient(options)
NewClient(i, auth, secret) ==
    [kind |-> "client", owner |-> i, auth |-> auth, secret |-> secret]

AuthRequired ==
    McpError("InternalError",
             <<"Authentication required. Provide Bearer token in Authorization header or set TIMESHEET_API_TOKEN environment variable.">>)

\* the credential branch with the environment key tried first
ResolveCredential_EnvFirst(oauthToken, apiToken) ==
    IF Truthy(apiToken)
    THEN [ok |-> TRUE, auth |-> "apiKey", secret |-> apiToken]
    ELSE IF Truthy(oauthToken)
    THEN [ok |-> TRUE, auth |-> "oauth2Token", secret |-> oauthToken]
    ELSE [ok |-> FALSE, auth |-> "none", secret |-> Undefined]

\* the credential branch of getClient, part_000:94-110
ResolveCredential(oauthToken, apiToken) ==
    IF Truthy(oauthToken)
    THEN [ok |-> TRUE, auth |-> "oauth2Token", secret |-> oauthToken]
    ELSE IF Truthy(apiToken)
    THEN [ok |-> TRUE, auth |-> "apiKey", secret |-> apiToken]
    ELSE [ok |-> FALSE, auth |-> "none", secret |-> Undefined]

\* getClient without the cached handle: a client from the resolved
\* credential on every call
getClient_NoCache(i) ==
    LET c == ResolveCredential(srv[i].oauthToken, env.TIMESHEET_API_TOKEN)
    IN  IF c.ok
        THEN [ok |-> TRUE, client |-> NewClient(i, c.auth, c.secret)]
        ELSE [ok |-> FALSE, client |-> None]

\* part_000:85-122: the cached handle, else a client built from the resolved
\* credential, else the authentication-required error
getClient(i) ==
    IF srv[i].client # None
    THEN [ok |-> TRUE, client |-> srv[i].client]
    ELSE LET c == ResolveCredential(srv[i].oauthToken, env.TIMESHEET_API_TOKEN)
         IN  IF c.ok
             THEN [ok |-> TRUE, client |-> NewClient(i, c.auth, c.secret)]
             ELSE [ok |-> FALSE, client |-> None]


\* ------------------------------------------------------------ call state
Entry(op, page, taskId, client) ==
    [op |-> op, page |-> page, taskId |-> taskId, client |-> client]

IdleCall ==
    [pc |-> "idle", name |-> "", args |-> Undefined, inst |-> 0,
     pending |-> {}, log |-> <<>>, primary |-> None,
     profile |-> "unused", settings |-> "unused",
     page |-> 0, items |-> 0, outcome |-> None]

\* the handler has returned or thrown
Finish(c, outcome) == [c EXCEPT !.pc = "done", !.outcome = outcome]

\* one upstream call is started and its promise is outstanding
Issue(c, op, page, taskId, client) ==
    [c EXCEPT !.pending = @ \cup {op},
              !.log = Append(@, Entry(op, page, taskId, client))]

\* getProfileAndSettings(), part_000:2426-2433: both reads start at once on
\* the instance's client
getProfileAndSettings(c, client) ==
    [Issue(Issue(c, "profile.getProfile", 0, Undefined, client),
           "settings.get", 0, Undefined, client)
        EXCEPT !.profile = "pending", !.settings = "pending"]

\* statistics_get, part_000:3556-3557
limit == 100
maxPages == 5

\* the try block of each handler up to its first await
HandlerBody(c, h, client) ==
    CASE h.kind = "withUser" ->
            IF h.args = "beforeCall" /\ c.args = Undefined
            THEN Finish(c, handleApiError(AsApiError(PropertyError)))
            ELSE getProfileAndSettings(Issue(c, h.op, 0, Undefined, client), client)
      [] h.kind = "single" -> Issue(c, h.op, 0, Undefined, client)
      [] h.kind = "enhance" -> Issue(c, "timer.get", 0, Undefined, client)
      [] h.kind = "stats" ->
            Issue([c EXCEPT !.page = 1], "tasks.search", 1, Undefined, client)

\* the key auth_configure is called with
ConfiguredKey == "configured-key"

\* handleAuthConfigure, part_000:2994-3020
handleAuthConfigure(c, i) ==
    IF c.args = Undefined
    THEN [call |-> Finish(c, Thrown(DestructureError)), client |-> srv[i].client]
    ELSE [call |-> Finish(c, Response(<<"Authentication configured successfully">>,
                                      FALSE,
                                      [NoStructured EXCEPT !.shape = "ok"])),
          client |-> NewClient(i, "apiKey", ConfiguredKey)]

\* every other handler: `const client = this.getClient()`, the destructuring
\* of args, then the try block
RunHandler(c, i, h) ==
    IF h.kind = "auth" THEN handleAuthConfigure(c, i)
    ELSE LET gc == getClient(i)
         IN  IF ~gc.ok
             THEN [call |-> Finish(c, Thrown(AuthRequired)), client |-> srv[i].client]
             ELSE IF h.args = "destructure" /\ c.args = Undefined
             THEN [call |-> Finish(c, Thrown(DestructureError)), client |-> gc.client]
             ELSE [call |-> HandlerBody(c, h, gc.client), client |-> gc.client]

\* the catch clause without the `instanceof McpError` pass-through
DispatcherCatch_WrapAll(error) ==
    McpError("InternalError", <<"Error executing tool: ", error.message[1]>>)

\* the catch clause of the CallTool request handler, part_000:2346-2354
DispatcherCatch(error) ==
    IF error.class = "McpError" THEN error
    ELSE McpError("InternalError", <<"Error executing tool: ", error.message[1]>>)

\* the CallTool request handler, part_000:2225-2355.  Each case is
\* `return this.handleX(args)`: the handler's promise is returned without
\* being awaited, so what the handler throws settles that promise and does
\* not pass through the catch clause; only the default case throws inside
\* the try block.
CallToolRequest(c, i) ==
    IF c.name \in RegisteredTools
    THEN RunHandler(c, i, Handlers[c.name])
    ELSE [call |-> Finish(c, Thrown(DispatcherCatch(
                       McpError("MethodNotFound", <<"Unknown tool: ", c.name>>)))),
          client |-> srv[i].client]

\* the resource URIs the model reads
ResourceUris ==
    { "ui://timesheet/TimerWidget.html", "ui://timesheet/Statistics.html",
      "ui://timesheet/Nope.html", "ui://timesheet/timerwidget.html",
      "ui://timesheet/TimerWidget.html.html", "ui://timesheet/../TimerWidget.html",
      "ui://timesheet/.html", "ui://timesheet/TimerWidget",
      "ui://other/TimerWidget.html", "https://timesheet/TimerWidget.html", "" }

\* uri.match(/^ui:\/\/timesheet\/(.+)\.html$/): the first group, or no match
UriMatch ==
    [ uri \in ResourceUris |->
        CASE uri = "ui://timesheet/TimerWidget.html"       -> "TimerWidget"
          [] uri = "ui://timesheet/Statistics.html"        -> "Statistics"
          [] uri = "ui://timesheet/Nope.html"              -> "Nope"
          [] uri = "ui://timesheet/timerwidget.html"       -> "timerwidget"
          [] uri = "ui://timesheet/TimerWidget.html.html"  -> "TimerWidget.html"
          [] uri = "ui://timesheet/../TimerWidget.html"    -> "../TimerWidget"
          [] OTHER                                         -> Undefined ]

\* part_000:2181
validComponents ==
    { "TimerWidget", "ProjectList", "ProjectCard", "TaskList", "TaskCard",
      "Statistics", "ExportWidget" }

\* the ReadResource handler up to `await fs.readFile(...)`, part_000:2171-2197,
\* without the test of the component name
ReadResourceRequest_NoComponentCheck(c) ==
    LET componentName == UriMatch[c.args]
    IN  IF componentName = Undefined
        THEN [c EXCEPT !.pc = "read-done",
                       !.outcome = Thrown(McpError("InvalidRequest",
                                                   <<"Invalid widget URI: ", c.args>>))]
        ELSE [c EXCEPT !.pc = "read-await",
                       !.log = Append(@, Entry("fs.readFile", 0, componentName, None))]

\* the ReadResource handler up to `await fs.readFile(...)`, part_000:2171-2197
ReadResourceRequest(c) ==
    LET componentName == UriMatch[c.args]
    IN  IF componentName = Undefined
        THEN [c EXCEPT !.pc = "read-done",
                       !.outcome = Thrown(McpError("InvalidRequest",
                                                   <<"Invalid widget URI: ", c.args>>))]
        ELSE IF componentName \notin validComponents
        THEN [c EXCEPT !.pc = "read-done",
                       !.outcome = Thrown(McpError("InvalidRequest",
                                                   <<"Unknown component: ", componentName>>))]
        ELSE [c EXCEPT !.pc = "read-await",
                       !.log = Append(@, Entry("fs.readFile", 0, componentName, None))]

\* what fs.readFile settles with
FileReads ==
    { [ok |-> TRUE,  text |-> "<!doctype html>"],
      [ok |-> FALSE, text |-> "Error: ENOENT: no such file or directory"] }

\* the rest of the ReadResource handler, part_000:2199-2222
ReadResourceResult(c, file) ==
    [c EXCEPT !.pc = "read-done",
              !.outcome =
                 IF file.ok
                 THEN Response(<<file.text>>, FALSE,
                               [NoStructured EXCEPT !.shape = "contents"])
                 ELSE Thrown(McpError("InternalError",
                                      <<"Failed to read component: ", file.text>>))]


\* ---------------------------------------------------------- continuations
\* the client held in the handler's local `client`
HandlerClient(c) == c.log[1].client

\* the precondition that takes a paused timer for a stopped one
NoActiveTask_PausedToo(timer) ==
    timer.task.id = Undefined \/ timer.status \in {"stopped", "paused"}

\* the precondition without the status test
NoActiveTask_IgnoreStatus(timer) == timer.task.id = Undefined

\* the precondition without the task test
NoActiveTask_IgnoreTask(timer) == timer.status = "stopped"

\* the precondition of the enhancement tools, part_000:2524, 2566, 2610:
\* `!timer.task || timer.status === 'stopped'`
NoActiveTask(timer) == timer.task.id = Undefined \/ timer.status = "stopped"

\* a join in which a failed profile or settings read fails the tool
JoinWithUser_AuxRequired(c, h) ==
    IF c.primary = None \/ c.profile = "pending" \/ c.settings = "pending"
    THEN c
    ELSE IF c.profile = "null" \/ c.settings = "null"
    THEN Finish(c, handleApiError(AsApiError(PropertyError)))
    ELSE IF h.op \in TimerOps
    THEN Finish(c, formatTimerResponse(formatCompleteTimerData(c.primary.timer),
                                       c.profile, c.settings))
    ELSE IF h.args = "afterCall" /\ c.args = Undefined
    THEN Finish(c, handleApiError(AsApiError(PropertyError)))
    ELSE Finish(c, OkResponse(c.name, c.profile, c.settings, 0))

\* the code after `await Promise.all([primary, getProfileAndSettings()])`
JoinWithUser(c, h) ==
    IF c.primary = None \/ c.profile = "pending" \/ c.settings = "pending"
    THEN c
    ELSE IF h.op \in TimerOps
    THEN Finish(c, formatTimerResponse(formatCompleteTimerData(c.primary.timer),
                                       c.profile, c.settings))
    ELSE IF h.args = "afterCall" /\ c.args = Undefined
    THEN Finish(c, handleApiError(AsApiError(PropertyError)))
    ELSE Finish(c, OkResponse(c.name, c.profile, c.settings, 0))

\* statistics_get after the page loop, part_000:3583-3588
JoinStats(c) ==
    IF c.profile = "pending" \/ c.settings = "pending"
    THEN c
    ELSE Finish(c, OkResponse(c.name, c.profile, c.settings, c.items))

\* the page loop that stops at page 5 only
LastPage_IgnoreSize(page, count) == page = maxPages

\* the page loop of statistics_get ends, part_000:3559 and 3580: the page
\* was short, or it was the last page the loop asks for
LastPage(page, count) == count < limit \/ page = maxPages

\* the handler resumes with the value of a fulfilled upstream call
OnResolve(c, i, op, v) ==
    LET h == Handlers[c.name]
        d == [c EXCEPT !.pending = @ \ {op}]
    IN  IF c.pc = "done" THEN d
        ELSE IF op = "profile.getProfile"
        THEN LET e == [d EXCEPT !.profile = "profile"]
             IN  IF h.kind = "stats" THEN JoinStats(e) ELSE JoinWithUser(e, h)
        ELSE IF op = "settings.get"
        THEN LET e == [d EXCEPT !.settings = "settings"]
             IN  IF h.kind = "stats" THEN JoinStats(e) ELSE JoinWithUser(e, h)
        ELSE CASE h.kind = "withUser" ->
                    JoinWithUser([d EXCEPT !.primary = [kind |-> "value", timer |-> v.timer]], h)
               [] h.kind = "single" ->
                    Finish(d, OkResponse(c.name, Undefined, Undefined, 0))
               [] h.kind = "enhance" ->
                    IF op = "timer.get"
                    THEN LET e == [d EXCEPT !.primary = [kind |-> "value", timer |-> v.timer]]
                         IN  IF NoActiveTask(v.timer)
                             THEN Finish(e, NoRunningTimer)
                             ELSE Issue(e, h.op, 0, v.timer.task.id, HandlerClient(c))
                    ELSE Finish(d, OkResponse(c.name, Undefined, Undefined, 0))
               [] h.kind = "stats" ->
                    LET e == [d EXCEPT !.items = @ + v.count]
                    IN  IF LastPage(c.page, v.count)
                        THEN getProfileAndSettings(e, getClient(i).client)
                        ELSE Issue([e EXCEPT !.page = @ + 1], "tasks.search",
                                   c.page + 1, Undefined, HandlerClient(c))

\* a catch block that tries the failed call a second time
OnReject_Retry(c, op, error) ==
    LET d == [c EXCEPT !.pending = @ \ {op}]
        tries == Cardinality({ k \in DOMAIN c.log :
                                 c.log[k].op = op /\ c.log[k].page = c.page })
    IN  IF c.pc = "done" THEN d
        ELSE IF tries < 2
        THEN Issue(d, op, c.page, Undefined, HandlerClient(c))
        ELSE Finish(d, handleApiError(error))

\* the handler resumes with the rejection of an upstream call: the
\* profile/settings reads carry `.catch(() => null)`, everything else lands
\* in the handler's catch block, `return this.handleApiError(error)`
OnReject(c, op, error) ==
    LET h == Handlers[c.name]
        d == [c EXCEPT !.pending = @ \ {op}]
    IN  IF c.pc = "done" THEN d
        ELSE IF op = "profile.getProfile"
        THEN LET e == [d EXCEPT !.profile = "null"]
             IN  IF h.kind = "stats" THEN JoinStats(e) ELSE JoinWithUser(e, h)
        ELSE IF op = "settings.get"
        THEN LET e == [d EXCEPT !.settings = "null"]
             IN  IF h.kind = "stats" THEN JoinStats(e) ELSE JoinWithUser(e, h)
        ELSE Finish(d, handleApiError(error))

\* ------------------------------------------------------- upstream values
NoTimer == [status |-> Undefined, task |-> NoTask]

\* page sizes tasks.search may return
PageSizes == {0, 40, 100}

\* what a fulfilled upstream call may yield
Results(op) ==
    IF op \in TimerOps THEN { [timer |-> t, count |-> 0] : t \in Timers }
    ELSE IF op = "tasks.search" THEN { [timer |-> NoTimer, count |-> n] : n \in PageSizes }
    ELSE { [timer |-> NoTimer, count |-> 0] }

\* ------------------------------------------------ statistics aggregator
\* Calendar dates 2025-01-dd are written as the day number dd (2024-12-31 is
\* 0); comparing day numbers is localeCompare on the YYYY-MM-DD strings.
\* Hours are held in hundredths, the two decimals toFixed(2) keeps.

\* a task whose startDateTime is absent
NoDate == -100

\* Date.prototype.getDay in local time: 2025-01-05 is a Sunday
getDay(d) == (d + 2) % 7

\* minutes east of UTC of the zone the process runs in
TimeZones == {-300, 0, 120}

\* new Date(s + 'T00:00:00') is local midnight of day d; toISOString() prints
\* the UTC date of that instant
toISOStringDate(d, tz) == IF tz > 0 THEN d - 1 ELSE d

Project(id, title) == [kind |-> "project", id |-> id, title |-> title]

Task(duration, durationBreak, billable, project, projectId, startDateTime) ==
    [ duration      |-> duration,
      durationBreak |-> durationBreak,
      billable      |-> billable,
      project       |-> project,
      projectId     |-> projectId,
      startDateTime |-> startDateTime ]

\* 2^e mod 3600
RECURSIVE Pow2Mod(_)
Pow2Mod(e) == IF e = 0 THEN 1 ELSE (2 * Pow2Mod(e - 1)) % 3600

\* the binary exponent k of sec / 3600: 2^k <= sec / 3600 < 2^(k + 1)
RECURSIVE ExponentUp(_, _, _)
ExponentUp(sec, m, k) == IF 2 * m <= sec THEN ExponentUp(sec, 2 * m, k + 1) ELSE k

RECURSIVE ExponentDown(_, _)
ExponentDown(v, k) == IF v >= 3600 THEN k ELSE ExponentDown(2 * v, k - 1)

BinaryExponent(sec) ==
    IF sec >= 3600 THEN ExponentUp(sec, 3600, 0) ELSE ExponentDown(sec, 0)

\* sec / 3600 is an IEEE-754 double: the quotient is rounded to 53 significant
\* bits.  TRUE when the double is not below the exact quotient.
QuotientNotBelow(sec) ==
    LET e   == 52 - BinaryExponent(sec)
        rem == ((sec % 3600) * Pow2Mod(e)) % 3600
    IN  rem = 0 \/ rem > 1800

\* Number((sec / 3600).toFixed(2)), in hundredths.  toFixed rounds the exact
\* value of the double, so only a quotient halfway between two hundredths
\* (sec % 36 = 18) depends on which side of it the double fell.
toFixed2(sec) ==
    LET q == sec \div 36
        r == sec % 36
    IN  IF r < 18 THEN q
        ELSE IF r > 18 THEN q + 1
        ELSE IF QuotientNotBelow(sec) THEN q + 1 ELSE q

RECURSIVE SumOver(_, _)
SumOver(f, I) ==
    IF I = {} THEN 0
    ELSE LET i == CHOOSE x \in I : TRUE IN f[i] + SumOver(f, I \ {i})

\* the running sums kept for the whole list, per project and per day
\* (`task.duration || 0`, `task.durationBreak || 0`, `task.billable`)
Accumulate(tasks, I) ==
    LET duration      == [i \in DOMAIN tasks |-> tasks[i].duration]
        durationBreak == [i \in DOMAIN tasks |-> tasks[i].durationBreak]
    IN  [ totalSec       |-> SumOver(duration, I),
          billableSec    |-> SumOver(duration, {i \in I : tasks[i].billable}),
          nonBillableSec |-> SumOver(duration, {i \in I : ~tasks[i].billable}),
          breakSec       |-> SumOver(durationBreak, I),
          count          |-> Cardinality(I) ]

\* task.project?.id || task.projectId || 'unknown'
projId(task) ==
    IF task.project # None /\ Truthy(task.project.id) THEN task.project.id
    ELSE IF Truthy(task.projectId) THEN task.projectId
    ELSE "unknown"

\* task.project?.title || 'Unknown Project'
projTitle(task) ==
    IF task.project # None /\ Truthy(task.project.title) THEN task.project.title
    ELSE "Unknown Project"

\* the keys of projectMap in insertion order
RECURSIVE ProjectKeys(_)
ProjectKeys(tasks) ==
    IF tasks = <<>> THEN <<>>
    ELSE LET front == ProjectKeys(SubSeq(tasks, 1, Len(tasks) - 1))
             id    == projId(tasks[Len(tasks)])
         IN  IF \E j \in DOMAIN front : front[j] = id THEN front
             ELSE Append(front, id)

\* the projectMap entry of one key: created by the first task of the project,
\* added to by each later one
projectMap_FirstTaskOnly(tasks, id) ==
    LET I     == {i \in DOMAIN tasks : projId(tasks[i]) = id}
        first == CHOOSE i \in I : \A j \in I : i <= j
    IN  [ projectId |-> id, title |-> projTitle(tasks[first]),
          sums |-> Accumulate(tasks, {first}) ]
projectMap(tasks, id) ==
    LET I     == {i \in DOMAIN tasks : projId(tasks[i]) = id}
        first == CHOOSE i \in I : \A j \in I : i <= j
    IN  [ projectId |-> id, title |-> projTitle(tasks[first]),
          sums |-> Accumulate(tasks, I) ]

\* where a stable descending sort puts an entry into the entries sorted so
\* far: after every entry that is not smaller
InsertPosition_BeforeEqual(sorted, e) ==
    Cardinality({j \in DOMAIN sorted : sorted[j].sums.totalSec > e.sums.totalSec})
InsertPosition(sorted, e) ==
    Cardinality({j \in DOMAIN sorted : sorted[j].sums.totalSec >= e.sums.totalSec})

\* Array.prototype.sort with (a, b) => b.totalSec - a.totalSec: stable,
\* descending
RECURSIVE SortByTotalSecDesc(_)
SortByTotalSecDesc(entries) ==
    IF entries = <<>> THEN <<>>
    ELSE LET n      == Len(entries)
             sorted == SortByTotalSecDesc(SubSeq(entries, 1, n - 1))
             e      == entries[n]
             pos    == InsertPosition(sorted, e)
         IN  SubSeq(sorted, 1, pos) \o <<e>> \o SubSeq(sorted, pos + 1, n - 1)

\* Math.round(n / d) for d > 0: the nearest integer, halves upwards
MathRound(n, d) == (2 * n + d) \div (2 * d)

\* hours / totalHours * 100 is computed in IEEE-754 doubles.  Where the exact
\* quotient lies halfway between two integers the double product can fall
\* below the half, and Math.round then gives the lower integer.  These are the
\* pairs <<hours, totalHours>> (in hundredths, totalHours up to 10.00) where it
\* does; everywhere else Math.round gives the exact quotient rounded to the
\* nearest integer, halves upwards.
HalfFallsBelow ==
    { <<9, 40>>, <<11, 40>>, <<15, 40>>, <<21, 40>>, <<23, 40>>, <<29, 40>>,
      <<31, 40>>, <<35, 40>>, <<21, 56>>, <<35, 56>>, <<49, 56>>, <<18, 80>>,
      <<22, 80>>, <<30, 80>>, <<42, 80>>, <<46, 80>>, <<58, 80>>, <<62, 80>>,
      <<70, 80>>, <<42, 112>>, <<70, 112>>, <<98, 112>>, <<69, 120>>,
      <<85, 136>>, <<119, 136>>, <<57, 152>>, <<36, 160>>, <<44, 160>>,
      <<60, 160>>, <<84, 160>>, <<92, 160>>, <<116, 160>>, <<124, 160>>,
      <<140, 160>>, <<69, 184>>, <<115, 184>>, <<29, 200>>, <<57, 200>>,
      <<113, 200>>, <<115, 200>>, <<189, 216>>, <<84, 224>>, <<140, 224>>,
      <<196, 224>>, <<138, 240>>, <<165, 264>>, <<170, 272>>, <<238, 272>>,
      <<114, 304>>, <<117, 312>>, <<72, 320>>, <<88, 320>>, <<120, 320>>,
      <<168, 320>>, <<184, 320>>, <<232, 320>>, <<248, 320>>, <<280, 320>>,
      <<99, 360>>, <<117, 360>>, <<189, 360>>, <<207, 360>>, <<351, 360>>,
      <<138, 368>>, <<230, 368>>, <<58, 400>>, <<114, 400>>, <<226, 400>>,
      <<230, 400>>, <<378, 432>>, <<99, 440>>, <<121, 440>>, <<143, 440>>,
      <<165, 440>>, <<209, 440>>, <<253, 440>>, <<168, 448>>, <<280, 448>>,
      <<392, 448>>, <<276, 480>>, <<427, 488>>, <<117, 520>>, <<143, 520>>,
      <<169, 520>>, <<455, 520>>, <<330, 528>>, <<201, 536>>, <<340, 544>>,
      <<476, 544>>, <<21, 600>>, <<57, 600>>, <<87, 600>>, <<117, 600>>,
      <<165, 600>>, <<171, 600>>, <<531, 600>>, <<543, 600>>, <<228, 608>>,
      <<539, 616>>, <<234, 624>>, <<144, 640>>, <<176, 640>>, <<240, 640>>,
      <<336, 640>>, <<368, 640>>, <<464, 640>>, <<496, 640>>, <<560, 640>>,
      <<405, 648>>, <<567, 648>>, <<527, 680>>, <<198, 720>>, <<234, 720>>,
      <<378, 720>>, <<414, 720>>, <<702, 720>>, <<276, 736>>, <<460, 736>>,
      <<651, 744>>, <<209, 760>>, <<116, 800>>, <<228, 800>>, <<452, 800>>,
      <<460, 800>>, <<189, 840>>, <<483, 840>>, <<651, 840>>, <<735, 840>>,
      <<819, 840>>, <<535, 856>>, <<756, 864>>, <<763, 872>>, <<198, 880>>,
      <<242, 880>>, <<286, 880>>, <<330, 880>>, <<418, 880>>, <<506, 880>>,
      <<555, 888>>, <<777, 888>>, <<336, 896>>, <<560, 896>>, <<784, 896>>,
      <<552, 960>>, <<854, 976>>, <<35, 1000>>, <<145, 1000>>, <<165, 1000>>,
      <<435, 1000>>, <<455, 1000>>, <<535, 1000>>, <<555, 1000>>,
      <<575, 1000>>, <<785, 1000>>, <<895, 1000>>, <<995, 1000>> }

\* totalHours > 0 ? Math.round((hours / totalHours) * 100) : 0
percentage_Ceil(hours, totalHours) ==
    IF totalHours > 0
    THEN (100 * hours + totalHours - 1) \div totalHours
    ELSE 0
percentage(hours, totalHours) ==
    IF totalHours > 0
    THEN IF <<hours, totalHours>> \in HalfFallsBelow
         THEN (100 * hours) \div totalHours
         ELSE MathRound(100 * hours, totalHours)
    ELSE 0

projectBreakdown(tasks) ==
    LET keys       == ProjectKeys(tasks)
        entries    == [j \in DOMAIN keys |-> projectMap(tasks, keys[j])]
        sorted     == SortByTotalSecDesc(entries)
        totalHours == toFixed2(Accumulate(tasks, DOMAIN tasks).totalSec)
    IN  [ j \in DOMAIN sorted |->
            [ projectId        |-> sorted[j].projectId,
              projectTitle     |-> sorted[j].title,
              hours            |-> toFixed2(sorted[j].sums.totalSec),
              billableHours    |-> toFixed2(sorted[j].sums.billableSec),
              nonBillableHours |-> toFixed2(sorted[j].sums.nonBillableSec),
              taskCount        |-> sorted[j].sums.count,
              percentage       |-> percentage(toFixed2(sorted[j].sums.totalSec),
                                              totalHours) ] ]

\* the dailyMap entry of one key: created by the first task that starts on
\* the day (`task.startDateTime.substring(0, 10)`), added to by each later one
dailyMap_LastTaskOnly(tasks, key) ==
    LET I == {i \in DOMAIN tasks : tasks[i].startDateTime = key}
    IN  Accumulate(tasks, {i \in I : \A j \in I : j <= i})
dailyMap(tasks, key) ==
    Accumulate(tasks, {i \in DOMAIN tasks : tasks[i].startDateTime = key})

\* the keys the zero-day fill visits: `current` runs over the local midnights
\* from start to end
FillKeys(startDate, endDate, tz) ==
    { toISOStringDate(d, tz) : d \in startDate..endDate }

RECURSIVE SortAscending(_)
SortAscending(S) ==
    IF S = {} THEN <<>>
    ELSE LET m == CHOOSE x \in S : \A y \in S : x <= y
         IN  <<m>> \o SortAscending(S \ {m})

\* `if (task.startDateTime)`: only such a task gets a dailyMap key
hasStartDateTime_Always(task) == TRUE
hasStartDateTime(task) == task.startDateTime # NoDate

\* Array.from(dailyMap.entries()).sort(...): the dates, ascending
sortedDays(tasks, startDate, endDate, tz) ==
    SortAscending({ tasks[i].startDateTime :
                      i \in {j \in DOMAIN tasks : hasStartDateTime(tasks[j])} }
                  \cup FillKeys(startDate, endDate, tz))

HoursEntry(sums) ==
    [ hours            |-> toFixed2(sums.totalSec),
      billableHours    |-> toFixed2(sums.billableSec),
      nonBillableHours |-> toFixed2(sums.nonBillableSec),
      breakHours       |-> toFixed2(sums.breakSec) ]

dailyHours(tasks, startDate, endDate, tz) ==
    LET days == sortedDays(tasks, startDate, endDate, tz)
    IN  [ j \in DOMAIN days |->
            [date |-> days[j]] @@ HoursEntry(dailyMap(tasks, days[j])) ]

\* hours by which the UTC offset of the zone differs between the two local
\* midnights of a range (a daylight-saving change inside the range); of the
\* zones above the western one observes daylight saving
DstShifts(tz) == IF tz < 0 THEN {-1, 0, 1} ELSE {0}

\* Math.round((end.getTime() - start.getTime()) / 86400000) + 1, the times
\* counted in hours
rangeDays_Floor(startDate, endDate, dst) ==
    ((endDate - startDate) * 24 + dst) \div 24 + 1
rangeDays(startDate, endDate, dst) ==
    MathRound((endDate - startDate) * 24 + dst, 24) + 1

\* the Monday of the week of a dailyMap key, printed with toISOString()
weekKey(dateStr, tz) ==
    LET day  == getDay(dateStr)
        diff == dateStr - day + (IF day = 0 THEN -6 ELSE 1)
    IN  toISOStringDate(diff, tz)

\* a weekMap whose entry is overwritten by each further day of the week
weekMap_LastDayOnly(tasks, days, key, tz) ==
    LET J    == {j \in DOMAIN days : weekKey(days[j], tz) = key}
        last == CHOOSE j \in J : \A k \in J : k <= j
        d    == dailyMap(tasks, days[last])
    IN  [ totalSec       |-> d.totalSec,
          billableSec    |-> d.billableSec,
          nonBillableSec |-> d.nonBillableSec,
          breakSec       |-> d.breakSec ]

\* the weekMap entry of one key: the sums of the days of that week
weekMap(tasks, days, key, tz) ==
    LET J   == {j \in DOMAIN days : weekKey(days[j], tz) = key}
        day == [j \in DOMAIN days |-> dailyMap(tasks, days[j])]
    IN  [ totalSec       |-> SumOver([j \in DOMAIN days |-> day[j].totalSec], J),
          billableSec    |-> SumOver([j \in DOMAIN days |-> day[j].billableSec], J),
          nonBillableSec |-> SumOver([j \in DOMAIN days |-> day[j].nonBillableSec], J),
          breakSec       |-> SumOver([j \in DOMAIN days |-> day[j].breakSec], J) ]

\* weeklyHours stays undefined unless the range is longer than 14 days
NoWeeklyHours == [defined |-> FALSE, weeks |-> <<>>]

weeklyHours(tasks, startDate, endDate, tz, dst) ==
    IF rangeDays(startDate, endDate, dst) > 14
    THEN LET days  == sortedDays(tasks, startDate, endDate, tz)
             weeks == SortAscending({ weekKey(days[j], tz) : j \in DOMAIN days })
         IN  [ defined |-> TRUE,
               weeks   |-> [ j \in DOMAIN weeks |->
                               [weekStart |-> weeks[j]]
                               @@ HoursEntry(weekMap(tasks, days, weeks[j], tz)) ] ]
    ELSE NoWeeklyHours

\* computeStatistics, part_000:3594-3781 (projectColor, which is passed
\* through, is not part of this record)
computeStatistics(tasks, startDate, endDate, tz, dst) ==
    LET sums == Accumulate(tasks, DOMAIN tasks)
    IN  [ totalHours       |-> toFixed2(sums.totalSec),
          billableHours    |-> toFixed2(sums.billableSec),
          nonBillableHours |-> toFixed2(sums.nonBillableSec),
          totalTasks       |-> Len(tasks),
          totalBreakHours  |-> toFixed2(sums.breakSec),
          startDate        |-> startDate,
          endDate          |-> endDate,
          projectBreakdown |-> projectBreakdown(tasks),
          dailyHours       |-> dailyHours(tasks, startDate, endDate, tz),
          weeklyHours      |-> weeklyHours(tasks, startDate, endDate, tz, dst) ]

\* the aggregator before it has run
NoStatistics ==
    [ totalHours |-> 0, billableHours |-> 0, nonBillableHours |-> 0,
      totalTasks |-> 0, totalBreakHours |-> 0, startDate |-> 0, endDate |-> 0,
      projectBreakdown |-> <<>>, dailyHours |-> <<>>,
      weeklyHours |-> NoWeeklyHours ]

NoStats ==
    [pc |-> "off", tz |-> 0, dst |-> 0, tasks |-> <<>>, result |-> NoStatistics]

\* ------------------------------------------------------------ timer widget
\* ViewType, ViewRouter.tsx:8-14
ViewTypes ==
    {"timer", "task/edit", "pause/new", "expense/new", "note/new", "project/select"}

\* `navigate`, ViewRouter.tsx:29-31
\* the views the menu of the running view navigates to
MenuViews == {"task/edit", "pause/new", "expense/new", "note/new"}

navigate(prev, view) == Append(prev, view)

\* goBack without the test of the length
goBack_NoGuard(prev) == SubSeq(prev, 1, Len(prev) - 1)

\* `goBack`, ViewRouter.tsx:33-38
goBack(prev) == IF Len(prev) <= 1 THEN prev ELSE SubSeq(prev, 1, Len(prev) - 1)

\* currentView, ViewRouter.tsx:27
currentView(history) == history[Len(history)]

\* the widget before it is mounted
NoWidget ==
    [history |-> <<>>, status |-> Undefined, actionLoading |-> FALSE,
     actions |-> <<>>, invoked |-> 0]

\* ViewRenderer shows TimerRunningView, TimerWidget/index.tsx:52-58 (the
\* initial load is over and has not failed)
Shown(w) == currentView(w.history) = "timer" /\ w.status \in {"running", "paused"}

\* the render after a change of the history or of the timer: a
\* TimerRunningView that is no longer shown is unmounted and its state is
\* gone, one that is shown again is a new instance with
\* useState(false), TimerRunningView.tsx:20
Render(prev, w) ==
    IF ~Shown(w)
    THEN [w EXCEPT !.actionLoading = FALSE,
                   !.actions = [k \in DOMAIN @ |-> [@[k] EXCEPT !.mounted = FALSE]]]
    ELSE IF ~Shown(prev) THEN [w EXCEPT !.actionLoading = FALSE]
    ELSE w

\* a timer action that passed the guard: its tool call is outstanding
NewAction(action) ==
    [action |-> action, pc |-> "tool", mounted |-> TRUE, result |-> "pending"]

\* timerAction up to its first await, TimerRunningView.tsx:31-61
timerAction(w, action) ==
    IF w.actionLoading
    THEN [w EXCEPT !.invoked = @ + 1]
    ELSE [w EXCEPT !.actionLoading = TRUE, !.actions = Append(@, NewAction(action)),
                   !.invoked = @ + 1]

\* the finally clause of action k, TimerRunningView.tsx:67-69:
\* setActionLoading(false) of the instance the action was started in
Finally(w, k, result) ==
    [w EXCEPT !.actions[k].pc = "finished", !.actions[k].result = result,
              !.actionLoading = IF w.actions[k].mounted THEN FALSE ELSE @]

\* --------------------------------------------------------------- actions
NoHeader == [present |-> FALSE, scheme |-> "", sep |-> FALSE, cred |-> ""]

\* the HTTP response of a request: nothing written yet
NoRes == [sent |-> FALSE, status |-> 0, wwwAuthenticate |-> None, body |-> None]

NoHttp == [pc |-> "none", header |-> NoHeader, inst |-> 0, served |-> 0,
           error |-> None, res |-> NoRes, accept |-> "", userAgent |-> ""]

\* a tools/call request reaches the CallTool handler of the slot's server
\* instance and runs up to the handler's first await
CallTool(s, name, args) ==
    /\ http[s].pc \in {"stdio", "connected"}
    /\ http[s].served < (IF http[s].pc = "stdio" THEN MaxCalls ELSE 1)
    /\ call[s].pc \in {"idle", "done", "read-done"}
    /\ call[s].pending = {}
    /\ LET i == http[s].inst
           c == [IdleCall EXCEPT !.pc = "await", !.name = name,
                                 !.args = args, !.inst = i]
           r == CallToolRequest(c, i)
       IN  /\ call' = [call EXCEPT ![s] = r.call]
           /\ srv' = [srv EXCEPT ![i].client = r.client]
    /\ http' = [http EXCEPT ![s].served = @ + 1]
    /\ UNCHANGED <<env, stats, widget>>

\* a resources/read request reaches the ReadResource handler of the slot's
\* server instance and runs up to the file read
ReadResource(s, uri) ==
    /\ http[s].pc \in {"stdio", "connected"}
    /\ http[s].served < (IF http[s].pc = "stdio" THEN MaxCalls ELSE 1)
    /\ call[s].pc \in {"idle", "done", "read-done"}
    /\ call[s].pending = {}
    /\ call' = [call EXCEPT ![s] =
                  ReadResourceRequest([IdleCall EXCEPT !.pc = "await",
                                                       !.name = "resources/read",
                                                       !.args = uri,
                                                       !.inst = http[s].inst])]
    /\ http' = [http EXCEPT ![s].served = @ + 1]
    /\ UNCHANGED <<env, srv, stats, widget>>

\* the file read of a resources/read request settles
ReadFile(s, file) ==
    /\ call[s].pc = "read-await"
    /\ call' = [call EXCEPT ![s] = ReadResourceResult(call[s], file)]
    /\ UNCHANGED <<env, srv, http, stats, widget>>

\* an outstanding upstream call is fulfilled
UpstreamResolve(s, op, v) ==
    /\ op \in call[s].pending
    /\ call' = [call EXCEPT ![s] = OnResolve(call[s], call[s].inst, op, v)]
    /\ UNCHANGED <<env, srv, http, stats, widget>>

\* an outstanding upstream call is rejected
UpstreamReject(s, op, error) ==
    /\ op \in call[s].pending
    /\ call' = [call EXCEPT ![s] = OnReject(call[s], op, error)]
    /\ UNCHANGED <<env, srv, http, stats, widget>>

EnvChoices == { [TIMESHEET_API_TOKEN |-> k] : k \in {Undefined, "env-key"} }

ArgChoices == {Undefined, "object"}

\* the stdio entry point, part_000:3813-3816: one server without options
Init ==
    /\ env \in EnvChoices
    /\ srv = [i \in Inst |-> IF i = StdioSlot THEN NewServer(Undefined) ELSE NoServer]
    /\ http = [s \in Slot |-> IF s = StdioSlot
                              THEN [NoHttp EXCEPT !.pc = "stdio", !.inst = StdioSlot]
                              ELSE NoHttp]
    /\ call = [s \in Slot |-> IdleCall]
    /\ stats = NoStats
    /\ widget = NoWidget

AllOps == { Handlers[n].op : n \in RegisteredTools }
              \cup {"timer.get", "profile.getProfile", "settings.get"}

Next ==
    \/ \E name \in RegisteredTools \cup UnknownTools, args \in ArgChoices :
          CallTool(StdioSlot, name, args)
    \/ \E op \in AllOps : \E v \in Results(op) : UpstreamResolve(StdioSlot, op, v)
    \/ \E op \in AllOps, error \in ApiErrors : UpstreamReject(StdioSlot, op, error)
    \/ \E uri \in ResourceUris : ReadResource(StdioSlot, uri)
    \/ \E file \in FileReads : ReadFile(StdioSlot, file)

Spec == Init /\ [][Next]_vars


\* ------------------------------------------------- stateless HTTP server
Lower == ("Bearer" :> "bearer") @@ ("bearer" :> "bearer") @@ ("BEARER" :> "bearer")
            @@ ("Basic" :> "basic")

\* extractBearerToken, openai-helpers.ts:427-439: /^Bearer\s+(.+)$/i
extractBearerToken(header) ==
    IF ~header.present THEN Undefined
    ELSE IF Lower[header.scheme] = "bearer" /\ header.sep /\ header.cred # ""
    THEN header.cred
    ELSE Undefined

Token == (1 :> "token-1") @@ (2 :> "token-2") @@ (3 :> "token-3") @@ (4 :> "token-4")

\* Authorization headers request r may carry
Headers(r) ==
    { NoHeader,
      [present |-> TRUE, scheme |-> "Bearer", sep |-> TRUE, cred |-> Token[r]],
      [present |-> TRUE, scheme |-> "bearer", sep |-> TRUE, cred |-> Token[r]],
      [present |-> TRUE, scheme |-> "Bearer", sep |-> TRUE, cred |-> ""],
      [present |-> TRUE, scheme |-> "Basic", sep |-> TRUE, cred |-> "dXNlcjpwdw=="] }

\* one module-level server instance shared by all requests
InstanceFor_Shared(r) == 1

\* the server instance app.post builds for request r, http-server.ts:210:
\* `new TimesheetMCPServer(...)` inside the request handler, one per request
InstanceFor(r) == r

\* app.post up to `await server.connect(transport)`, http-server.ts:191-219
Post(r, header) ==
    /\ http[r].pc = "none"
    /\ LET bearerToken == extractBearerToken(header)
           i == InstanceFor(r)
       IN  /\ srv' = [srv EXCEPT ![i] =
                        NewServer(IF Truthy(bearerToken) THEN bearerToken ELSE Undefined)]
           /\ http' = [http EXCEPT ![r] =
                        [NoHttp EXCEPT !.pc = "connected", !.header = header,
                                       !.inst = i]]
    /\ UNCHANGED <<env, call, stats, widget>>

\* getMcpServerUrl and getApiBaseUrl with no override in the environment,
\* part_002:371-380
McpServerUrl == "http://localhost:3000"
ApiBaseUrl == "https://api.timesheet.io"

\* getWWWAuthenticateHeader, part_002:465-482, by its parameters
getWWWAuthenticateHeader(error, errorDescription) ==
    [ scheme            |-> "Bearer",
      realm             |-> McpServerUrl,
      authorization_uri |-> <<ApiBaseUrl, "/oauth2/auth">>,
      error             |-> error,
      error_description |-> errorDescription ]

\* what `transport.handleRequest` writes for a finished tools/call: the tool
\* result, or for a rejected handler the JSON-RPC error of the protocol layer
Answer(outcome) ==
    [ sent |-> TRUE, status |-> 200, wwwAuthenticate |-> None,
      body |-> IF outcome.kind = "response"
               THEN [kind |-> "result", isError |-> outcome.isError,
                     text |-> outcome.text]
               ELSE [kind |-> "jsonrpc-error", isError |-> TRUE,
                     text |-> outcome.error.message] ]

\* the message fragments of the model whose lower-case form includes 'auth',
\* 'unauthorized', '401' or 'token'
AuthWording ==
    { AuthRequired.message[1], "Invalid or expired token", "Unauthorized" }

\* http-server.ts:233-237
isAuthError(errorMessage) ==
    \E j \in DOMAIN errorMessage : errorMessage[j] \in AuthWording

\* the catch clause of app.post, http-server.ts:228-266
AppPostCatch(error, res) ==
    IF res.sent THEN res
    ELSE IF isAuthError(error.message)
    THEN [ sent |-> TRUE, status |-> 401,
           wwwAuthenticate |-> getWWWAuthenticateHeader("invalid_token", error.message),
           body |-> [ kind |-> "jsonrpc-error", code |-> -32001,
                      message |-> "Authentication required",
                      error |-> "invalid_token",
                      error_description |-> error.message,
                      authorization_server |-> ApiBaseUrl,
                      protected_resource_metadata |->
                          <<McpServerUrl, "/.well-known/oauth-protected-resource">> ] ]
    ELSE [ sent |-> TRUE, status |-> 500, wwwAuthenticate |-> None,
           body |-> [ kind |-> "jsonrpc-error", code |-> -32603,
                      message |-> "Internal server error",
                      data |-> error.message ] ]

\* app.post from transport.handleRequest on, http-server.ts:222-226: the call
\* is answered, then `await transport.close(); await server.close()`
HttpClose(r) ==
    /\ http[r].pc = "connected"
    /\ http[r].served = 1
    /\ call[r].pc = "done"
    /\ http' = [http EXCEPT ![r].pc = "closed", ![r].res = Answer(call[r].outcome)]
    /\ srv' = [srv EXCEPT ![http[r].inst].open = FALSE]
    /\ UNCHANGED <<env, call, stats, widget>>

\* errors `server.connect`, `transport.handleRequest` or the two close calls
\* may reject with
TransportErrors ==
    { [class |-> "Error", code |-> "none", message |-> <<m>>] :
        m \in {"Invalid or expired token", "socket hang up"} }

\* the error a finished call was rejected with, if any
ThrownBy(c) ==
    IF c.pc = "done" /\ c.outcome.kind = "throw" THEN {c.outcome.error} ELSE {}

\* an awaited call of the try block rejects and the catch clause runs: before
\* the call is dispatched, or after it was answered (headers sent); a
\* rejected handler may also surface here instead of being answered
HttpFail(r, error) ==
    /\ http[r].pc = "connected"
    /\ \/ call[r].pc = "idle" /\ http[r].served = 0 /\ error \in TransportErrors
       \/ call[r].pc = "done" /\ call[r].outcome.kind = "response"
                              /\ error \in TransportErrors
       \/ error \in ThrownBy(call[r])
    /\ LET sent == IF call[r].pc = "done" /\ call[r].outcome.kind = "response"
                   THEN Answer(call[r].outcome) ELSE NoRes
       IN  http' = [http EXCEPT ![r].pc = "failed", ![r].error = error,
                                ![r].res = AppPostCatch(error, sent)]
    /\ UNCHANGED <<env, srv, call, stats, widget>>

\* values of the Accept and User-Agent headers of a GET request; a header
\* that is absent reads as '' (`req.headers.accept || ''`)
AcceptChoices ==
    {"", "text/html,application/xhtml+xml", "application/json",
     "application/json, text/html", "*/*"}

UserAgentChoices == {"", "Mozilla/5.0 (X11; Linux x86_64)", "curl/8.5.0"}

\* String.prototype.includes over the header values above
Includes ==
    { <<"text/html,application/xhtml+xml", "text/html">>,
      <<"application/json, text/html", "text/html">>,
      <<"application/json", "application/json">>,
      <<"application/json, text/html", "application/json">>,
      <<"Mozilla/5.0 (X11; Linux x86_64)", "Mozilla">> }

includes(str, searchString) == <<str, searchString>> \in Includes

\* http-server.ts:279-280
wantsBrowser(acceptHeader, userAgent) ==
    \/ includes(acceptHeader, "text/html")
    \/ includes(userAgent, "Mozilla") /\ ~includes(acceptHeader, "application/json")

\* the 405 answer to API clients, http-server.ts:295-302
MethodNotAllowed ==
    [ sent |-> TRUE, status |-> 405, wwwAuthenticate |-> None,
      body |-> [ kind |-> "jsonrpc-error", code |-> -32601,
                 message |-> "This server operates in stateless mode. Use POST requests only." ] ]

\* what the callback of res.sendFile may be called with: nothing after the
\* file was sent, or the error of a file that could not be read
SendFileErrors == {None, [class |-> "Error", code |-> "ENOENT", message |-> <<"ENOENT">>]}

\* the response after the callback of res.sendFile, http-server.ts:285-290
SendFileResult(err) ==
    IF err = None
    THEN [ sent |-> TRUE, status |-> 200, wwwAuthenticate |-> None,
           body |-> [kind |-> "file", path |-> "web/landing.html"] ]
    ELSE [ sent |-> TRUE, status |-> 500, wwwAuthenticate |-> None,
           body |-> [kind |-> "text", text |-> "Error loading landing page"] ]

\* app.get on the MCP endpoint, http-server.ts:274-303
Get(r, accept, userAgent) ==
    /\ http[r].pc = "none"
    /\ http' = [http EXCEPT ![r] =
                  IF wantsBrowser(accept, userAgent)
                  THEN [NoHttp EXCEPT !.pc = "sendFile", !.accept = accept,
                                      !.userAgent = userAgent]
                  ELSE [NoHttp EXCEPT !.pc = "answered", !.accept = accept,
                                      !.userAgent = userAgent,
                                      !.res = MethodNotAllowed]]
    /\ UNCHANGED <<env, srv, call, stats, widget>>

\* res.sendFile calls back
SendFile(r, err) ==
    /\ http[r].pc = "sendFile"
    /\ http' = [http EXCEPT ![r].pc = "answered", ![r].res = SendFileResult(err)]
    /\ UNCHANGED <<env, srv, call, stats, widget>>

\* the requests the HTTP specification draws its tool calls from: a two-step
\* handler, a one-step handler, auth_configure and an unregistered name
HttpTools == {"task_add_note", "project_get", "auth_configure", "timer_restart"}

HttpOps == {"timer.get", "notes.create", "projects.get"}

HttpResults(op) ==
    IF op \in TimerOps
    THEN { [timer |-> [status |-> st, task |-> [id |-> "task-1", duration |-> 3725]],
            count |-> 0] : st \in {"running", "stopped"} }
    ELSE { [timer |-> NoTimer, count |-> 0] }

HttpErrors ==
    { [response |-> [present |-> TRUE, status |-> "401", message |-> "Invalid API token"],
       message |-> Undefined] }

InitHttp ==
    /\ env \in EnvChoices
    /\ srv = [i \in Inst |-> NoServer]
    /\ http = [s \in Slot |-> NoHttp]
    /\ call = [s \in Slot |-> IdleCall]
    /\ stats = NoStats
    /\ widget = NoWidget

NextHttp ==
    \E r \in Slot :
        \/ \E header \in Headers(r) : Post(r, header)
        \/ \E name \in HttpTools : CallTool(r, name, "object")
        \/ \E op \in HttpOps : \E v \in HttpResults(op) : UpstreamResolve(r, op, v)
        \/ \E op \in HttpOps, error \in HttpErrors : UpstreamReject(r, op, error)
        \/ HttpClose(r)

SpecHttp == InitHttp /\ [][NextHttp]_vars

\* one request on the MCP endpoint from its arrival to its response: a POST,
\* failures of the awaited calls of app.post included, or a GET
PostTools == HttpTools \cup {"timer_status", "statistics_get"}

NextPost ==
    \/ \E header \in Headers(1) : Post(1, header)
    \/ \E name \in PostTools, args \in ArgChoices : CallTool(1, name, args)
    \/ \E op \in AllOps : \E v \in Results(op) : UpstreamResolve(1, op, v)
    \/ \E op \in AllOps, error \in ApiErrors : UpstreamReject(1, op, error)
    \/ HttpClose(1)
    \/ \E error \in TransportErrors \cup ThrownBy(call[1]) : HttpFail(1, error)
    \/ \E accept \in AcceptChoices, userAgent \in UserAgentChoices :
          Get(1, accept, userAgent)
    \/ \E err \in SendFileErrors : SendFile(1, err)

SpecPost == InitHttp /\ [][NextPost]_vars


\* ------------------------------------------------ statistics, on its own
MaxTasks == 3

P1 == Project("p1", "Alpha")
P2 == Project("p2", "Beta")

\* tasks as tasks.search returns them
TaskChoices ==
    { Task(18,   0,   TRUE,  P1,   Undefined, 10),
      Task(18,   0,   FALSE, P2,   Undefined, 11),
      Task(18,   0,   TRUE,  P1,   "p9",      12),
      Task(2160, 0,   TRUE,  None, "p2",      10),
      Task(3600, 600, TRUE,  None, "p3",      NoDate),
      Task(5400, 300, FALSE, None, Undefined, 25),
      Task(0,    0,   FALSE, P1,   Undefined, 10),
      Task(7200, 0,   TRUE,  P2,   Undefined, 17) }

\* <<startDate, endDate>> of a statistics_get call
RangeChoices == { <<10, 10>>, <<6, 12>>, <<6, 19>>, <<6, 20>>, <<12, 6>> }

InitStats ==
    /\ env = [TIMESHEET_API_TOKEN |-> Undefined]
    /\ srv = [i \in Inst |-> NoServer]
    /\ http = [s \in Slot |-> NoHttp]
    /\ call = [s \in Slot |-> IdleCall]
    /\ \E tz \in TimeZones : \E dst \in DstShifts(tz) :
          stats = [NoStats EXCEPT !.pc = "tasks", !.tz = tz, !.dst = dst]
    /\ widget = NoWidget

\* one more task in the list handed to computeStatistics
AddTask(task) ==
    /\ stats.pc = "tasks"
    /\ Len(stats.tasks) < MaxTasks
    /\ stats' = [stats EXCEPT !.tasks = Append(@, task)]
    /\ UNCHANGED <<env, srv, http, call, widget>>

Compute(startDate, endDate) ==
    /\ stats.pc = "tasks"
    /\ stats' = [stats EXCEPT
                    !.pc = "computed",
                    !.result = computeStatistics(stats.tasks, startDate, endDate,
                                                 stats.tz, stats.dst)]
    /\ UNCHANGED <<env, srv, http, call, widget>>

NextStats ==
    \/ \E task \in TaskChoices : AddTask(task)
    \/ \E range \in RangeChoices : Compute(range[1], range[2])

SpecStats == InitStats /\ [][NextStats]_vars


\* ------------------------------------------- response formatters, on their own
\* longest project list handed to formatProjectListResponse
MaxProjects == 2

\* a list property: missing, or present with its items
NoList == [defined |-> FALSE, items |-> <<>>]
List(items) == [defined |-> TRUE, items |-> items]

\* `list && list.length > 0`
NonEmpty(list) == list.defined /\ list.items # <<>>

\* one line of the project list, part_002:109-118
ProjectLine(p) ==
    <<"- ", p.title>>
    \o (IF Truthy(p.description) THEN <<" - ", p.description>> ELSE <<>>)
    \o (IF p.archived THEN <<" [Archived]">> ELSE <<>>)

RECURSIVE ProjectLines(_)
ProjectLines(projects) ==
    IF projects = <<>> THEN <<>>
    ELSE ProjectLine(Head(projects)) \o <<"\n">> \o ProjectLines(Tail(projects))

\* part_002:106-143; `projects.map` throws for a list that is missing
formatProjectListResponse(projects, totalCount, profile, settings) ==
    IF ~projects.defined THEN Thrown(PropertyError)
    ELSE Response(<<"Found ", NumStr[totalCount],
                    IF totalCount # 1 THEN " projects" ELSE " project", ":\n\n">>
                  \o ProjectLines(projects.items),
                  FALSE,
                  [shape |-> "projects", status |-> Undefined, taskId |-> Undefined,
                   profile |-> profile, settings |-> settings,
                   totalTasks |-> totalCount])

\* Number.prototype.toFixed(1) of the hour values the formatter is given
Fixed1 == (0 :> "0.0") @@ (50 :> "0.5") @@ (100 :> "1.0") @@ (150 :> "1.5")

PctStr == (0 :> "0") @@ (67 :> "67") @@ (100 :> "100")

\* one line of the project breakdown, part_002:263-265
BreakdownLine(p) ==
    <<"  - ", p.projectTitle, ": ", Fixed1[p.hours], "h (", PctStr[p.percentage], "%, ",
      NumStr[p.taskCount], " tasks)">>

\* one line of the daily hours, part_002:271-273
DailyLine(d) == <<"  - ", d.date, ": ", Fixed1[d.hours], "h">>

\* the lines of formatStatisticsResponse, part_002:243-279; lists are given
\* with at most one element
StatisticsText(statistics) ==
    (IF Truthy(statistics.startDate) /\ Truthy(statistics.endDate)
     THEN <<"Period: ", statistics.startDate, " to ", statistics.endDate>> ELSE <<>>)
    \o <<"Total: ", Fixed1[statistics.totalHours], "h | Billable: ",
         Fixed1[statistics.billableHours], "h (",
         PctStr[IF statistics.totalHours > 0
                THEN percentage(statistics.billableHours, statistics.totalHours) ELSE 0],
         "%) | Tasks: ", NumStr[OrZero(statistics.totalTasks)]>>
    \o (IF statistics.totalBreakHours > 0
        THEN <<"Breaks: ", Fixed1[statistics.totalBreakHours], "h">> ELSE <<>>)
    \o (IF NonEmpty(statistics.projectBreakdown)
        THEN <<"Project Breakdown:">>
             \o BreakdownLine(statistics.projectBreakdown.items[1])
        ELSE <<>>)
    \o (IF NonEmpty(statistics.dailyHours)
        THEN <<"Daily Hours:">> \o DailyLine(statistics.dailyHours.items[1])
        ELSE <<>>)

\* the properties formatStatisticsResponse calls toFixed on
StatisticsDereferenced(statistics) ==
    {statistics.totalHours, statistics.billableHours}
    \cup (IF NonEmpty(statistics.projectBreakdown)
          THEN {statistics.projectBreakdown.items[1].hours} ELSE {})
    \cup (IF NonEmpty(statistics.dailyHours)
          THEN {statistics.dailyHours.items[1].hours} ELSE {})

\* part_002:241-297; `x.toFixed(1)` throws for an x that is missing
formatStatisticsResponse(statistics, profile, settings) ==
    IF NoNumber \in StatisticsDereferenced(statistics) THEN Thrown(PropertyError)
    ELSE Response(StatisticsText(statistics), FALSE,
                  [shape |-> "statistics", status |-> Undefined, taskId |-> Undefined,
                   profile |-> profile, settings |-> settings,
                   totalTasks |-> OrZero(statistics.totalTasks)])

\* timer data objects with some of their properties missing
TimerDataChoices ==
    { [status |-> st, duration |-> t[1], hours |-> t[2], minutes |-> t[3],
       taskId |-> Undefined, projectTitle |-> pt, description |-> de] :
        st \in {Undefined, "running"},
        t \in { <<NoNumber, NoNumber, NoNumber>>, <<0, 0, 0>>,
                <<3725, NoNumber, NoNumber>>, <<3725, 1, 2>> },
        pt \in {Undefined, "Website"},
        de \in {Undefined, "Fix login"} }

ProjectChoices ==
    { [title |-> ti, description |-> de, archived |-> ar] :
        ti \in {Undefined, "Website"},
        de \in {Undefined, "Client site"},
        ar \in {FALSE, TRUE} }

ProjectListChoices ==
    {NoList} \cup
    { List(items) : items \in UNION { [1..n -> ProjectChoices] : n \in 0..MaxProjects } }

BreakdownChoices ==
    {NoList, List(<<>>)} \cup
    { List(<<[projectTitle |-> ti, hours |-> h, percentage |-> 100, taskCount |-> 2]>>) :
        ti \in {Undefined, "Website"}, h \in {NoNumber, 150} }

DailyChoices ==
    {NoList, List(<<>>)} \cup
    { List(<<[date |-> "2025-01-06", hours |-> h]>>) : h \in {NoNumber, 150} }

StatisticsChoices ==
    { [totalHours |-> th, billableHours |-> bh, totalTasks |-> tt,
       totalBreakHours |-> br, startDate |-> pd[1], endDate |-> pd[2],
       projectBreakdown |-> pb, dailyHours |-> dh] :
        th \in {NoNumber, 0, 150},
        bh \in {NoNumber, 0, 100},
        tt \in {NoNumber, 2},
        br \in {NoNumber, 0, 50},
        pd \in { <<Undefined, Undefined>>, <<"2025-01-06", "2025-01-12">> },
        pb \in BreakdownChoices,
        dh \in DailyChoices }

\* a formatter is about to be called with a domain object
FormatterInput(name, object) ==
    [IdleCall EXCEPT !.pc = "format", !.name = name, !.args = object]

InitFormat ==
    /\ env = [TIMESHEET_API_TOKEN |-> Undefined]
    /\ srv = [i \in Inst |-> NoServer]
    /\ http = [s \in Slot |-> NoHttp]
    /\ stats = NoStats
    /\ widget = NoWidget
    /\ \E name \in {"formatTimerResponse", "formatProjectListResponse",
                     "formatStatisticsResponse"} :
       \E o \in CASE name = "formatTimerResponse" -> TimerDataChoices
                  [] name = "formatProjectListResponse" -> ProjectListChoices
                  [] name = "formatStatisticsResponse" -> StatisticsChoices :
          call = [s \in Slot |-> IF s = StdioSlot THEN FormatterInput(name, o)
                                                ELSE IdleCall]

\* the formatter returns or throws
Formatted(outcome) ==
    /\ call' = [call EXCEPT ![StdioSlot] = Finish(@, outcome)]
    /\ UNCHANGED <<env, srv, http, stats, widget>>

FormatTimer ==
    /\ call[StdioSlot].pc = "format"
    /\ call[StdioSlot].name = "formatTimerResponse"
    /\ Formatted(formatTimerResponse(call[StdioSlot].args, Undefined, Undefined))

FormatProjectList ==
    /\ call[StdioSlot].pc = "format"
    /\ call[StdioSlot].name = "formatProjectListResponse"
    /\ LET projects == call[StdioSlot].args
       IN  Formatted(formatProjectListResponse(
                         projects,
                         Len(projects.items),
                         Undefined, Undefined))

FormatStatistics ==
    /\ call[StdioSlot].pc = "format"
    /\ call[StdioSlot].name = "formatStatisticsResponse"
    /\ Formatted(formatStatisticsResponse(call[StdioSlot].args, Undefined, Undefined))

NextFormat == FormatTimer \/ FormatProjectList \/ FormatStatistics

SpecFormat == InitFormat /\ [][NextFormat]_vars


\* ------------------------------------------------- timer widget, on its own
\* timerAction invocations of one run
MaxClicks == 2

InitWidget ==
    /\ env = [TIMESHEET_API_TOKEN |-> Undefined]
    /\ srv = [i \in Inst |-> NoServer]
    /\ http = [s \in Slot |-> NoHttp]
    /\ call = [s \in Slot |-> IdleCall]
    /\ stats = NoStats
    /\ \E status \in {"running", "paused", "stopped"} :
          widget = [NoWidget EXCEPT !.history = <<"timer">>, !.status = status]

\* a button of the running view is pressed: pause or resume by the status
\* of the timer, or stop, TimerRunningView.tsx:168 and 186
TimerAction(action) ==
    /\ Shown(widget)
    /\ widget.invoked < MaxClicks
    /\ action \in {IF widget.status = "running" THEN "pauseTimer" ELSE "resumeTimer",
                    "stopTimer"}
    /\ widget' = timerAction(widget, action)
    /\ UNCHANGED <<env, srv, http, call, stats>>

\* the tool call of action k settles: the follow-up message and the reload
\* of the timer follow, or the catch clause and the finally clause
ToolSettles(k, ok) ==
    /\ k \in DOMAIN widget.actions
    /\ widget.actions[k].pc = "tool"
    /\ widget' = IF ok THEN [widget EXCEPT !.actions[k].pc = "reload"]
                       ELSE Finally(widget, k, "tool failed")
    /\ UNCHANGED <<env, srv, http, call, stats>>

\* `await reloadTimer()` of action k settles: with the status of the timer,
\* DataProvider.tsx reloadTimer, or with an error
ReloadSettles(k, status) ==
    /\ k \in DOMAIN widget.actions
    /\ widget.actions[k].pc = "reload"
    /\ widget' = IF status = Undefined
                 THEN Finally(widget, k, "reload failed")
                 ELSE Finally(Render(widget, [widget EXCEPT !.status = status]),
                              k, "done")
    /\ UNCHANGED <<env, srv, http, call, stats>>

\* the timer is reloaded from outside the running view: by the 30 s interval
\* of the DataProvider while the running view is shown, or by the start view
\* after it has started a timer
ReloadTimer(status) ==
    /\ currentView(widget.history) = "timer"
    /\ status # widget.status
    /\ widget.status = "stopped" => status = "running"
    /\ widget' = Render(widget, [widget EXCEPT !.status = status])
    /\ UNCHANGED <<env, srv, http, call, stats>>

\* an entry of the menu of the running view is chosen; the view shows the
\* spinner only while an action is in progress, TimerRunningView.tsx:74
Navigate(view) ==
    /\ Shown(widget)
    /\ ~widget.actionLoading
    /\ view \in MenuViews
    /\ widget' = Render(widget, [widget EXCEPT !.history = navigate(@, view)])
    /\ UNCHANGED <<env, srv, http, call, stats>>

\* a form goes back: when it is cancelled and when its submission has
\* succeeded, which may be after it was cancelled
GoBack ==
    /\ widget' = Render(widget, [widget EXCEPT !.history = goBack(@)])
    /\ UNCHANGED <<env, srv, http, call, stats>>

NextWidget ==
    \/ \E action \in {"pauseTimer", "resumeTimer", "stopTimer"} : TimerAction(action)
    \/ \E k \in 1..MaxClicks, ok \in BOOLEAN : ToolSettles(k, ok)
    \/ \E k \in 1..MaxClicks, status \in {"running", "paused", "stopped", Undefined} :
          ReloadSettles(k, status)
    \/ \E status \in {"running", "paused", "stopped"} : ReloadTimer(status)
    \/ \E view \in ViewTypes : Navigate(view)
    \/ GoBack

SpecWidget == InitWidget /\ [][NextWidget]_vars


\* ================================================================ claims
AuxOps == {"profile.getProfile", "settings.get"}

\* the enhancement tool of slot s has fetched a timer that is stopped or has
\* no task
NoActiveTimerFetched(s) ==
    /\ call[s].name \in EnhancementTools
    /\ call[s].primary # None
    /\ \/ call[s].primary.timer.status = "stopped"
       \/ call[s].primary.timer.task.id = Undefined

\* C1: an enhancement tool (task_add_note, task_add_expense, task_add_pause)
\* whose fetched timer is stopped or has no task never issues the create
\* call and returns isError: true with the text 'No running timer found.
\* Please start a timer first.'
C1_StoppedTimerNoCreate ==
    \A s \in Slot :
        NoActiveTimerFetched(s) =>
            /\ call[s].pc = "done"
            /\ call[s].outcome.kind = "response"
            /\ call[s].outcome.isError
            /\ call[s].outcome.text =
                   <<"No running timer found. Please start a timer first.">>
            /\ \A k \in DOMAIN call[s].log : call[s].log[k].op \notin CreateOps

C1_Witness ==
    \E s \in Slot :
        /\ call[s].name = "task_add_note"
        /\ call[s].pc = "done"
        /\ call[s].primary # None
        /\ call[s].primary.timer.status = "stopped"
        /\ call[s].primary.timer.task.id # Undefined

\* C2 as stated: an enhancement tool called with no active task returns a
\* user-readable isError response and no upstream call of any kind is
\* attempted during the invocation
C2_NoUpstreamCallAtAll ==
    \A s \in Slot :
        NoActiveTimerFetched(s) =>
            /\ call[s].outcome.kind = "response"
            /\ call[s].outcome.isError
            /\ call[s].log = <<>>

\* C2 amended: an enhancement tool called with no active task returns a
\* non-fatal isError response, and the only upstream call of the invocation is
\* the one timer read that establishes the precondition; no write is attempted
C2_OnlyTheTimerFetch ==
    \A s \in Slot :
        NoActiveTimerFetched(s) =>
            /\ call[s].outcome.kind = "response"
            /\ call[s].outcome.isError
            /\ Len(call[s].log) = 1
            /\ call[s].log[1].op = "timer.get"

C2_Witness ==
    \E s \in Slot :
        /\ call[s].name = "task_add_pause"
        /\ call[s].pc = "done"
        /\ call[s].primary # None
        /\ call[s].primary.timer.status = "running"
        /\ call[s].primary.timer.task.id = Undefined
        /\ Len(call[s].log) = 1

\* C3: a call of a name that is not registered fails with the protocol error
\* MethodNotFound (never InternalError), touches nothing upstream, and leaves
\* the server able to take the next call
C3_UnknownToolMethodNotFound ==
    \A s \in Slot :
        (call[s].pc = "done" /\ call[s].name \notin RegisteredTools) =>
            /\ call[s].outcome.kind = "throw"
            /\ call[s].outcome.error =
                   McpError("MethodNotFound", <<"Unknown tool: ", call[s].name>>)
            /\ call[s].log = <<>>
            /\ srv[call[s].inst].open
            /\ (http[s].pc = "stdio" /\ http[s].served < MaxCalls) =>
                   \A n \in RegisteredTools : ENABLED CallTool(s, n, "object")

C3_Witness ==
    \E s \in Slot :
        /\ call[s].pc = "done"
        /\ call[s].name = "timer_restart"
        /\ http[s].served < MaxCalls

\* the text the claim C4 prescribes for an upstream error
C4_Text(error) ==
    <<"API Error">>
    \o (IF error.response.present /\ error.response.status # Undefined
        THEN <<" (", error.response.status, ")">> ELSE <<>>)
    \o <<": ",
         IF error.response.present /\ error.response.message # Undefined
         THEN error.response.message
         ELSE IF error.message # Undefined THEN error.message
         ELSE "Unknown error">>

C4_Rendered(s, ops) ==
    \A op \in ops, error \in ApiErrors :
        (call[s].pc = "await" /\ UpstreamReject(s, op, error)) =>
            /\ call'[s].pc = "done"
            /\ call'[s].outcome.kind = "response"
            /\ call'[s].outcome.isError
            /\ call'[s].outcome.text = C4_Text(error)

\* C4 as stated: the failure of any upstream call inside a tool handler makes
\* the tool return the isError response 'API Error (<status>): <message>'
C4_EveryUpstreamFailureRendered ==
    [][\A s \in Slot : C4_Rendered(s, call[s].pending)]_vars

\* C4 amended: the failure of any upstream call other than the auxiliary
\* profile/settings reads (whose failure is replaced by null and does not fail
\* the tool) is caught in the handler and returned as the isError response
\* 'API Error (<status>): <message>', the status part present exactly when the
\* error carries a status, the message being the response message, else the
\* error's message, else 'Unknown error'; no upstream failure, auxiliary or
\* not, leaves the tool as an exception
C4_UpstreamFailureRendered ==
    [][\A s \in Slot :
          /\ C4_Rendered(s, call[s].pending \ AuxOps)
          /\ \A op \in call[s].pending, error \in ApiErrors :
                UpstreamReject(s, op, error) => call'[s].outcome.kind # "throw"]_vars

C4_Witness ==
    \E s \in Slot :
        /\ call[s].pc = "done"
        /\ call[s].outcome.text =
               <<"API Error", " (", "401", ")", ": ", "Invalid API token">>
        /\ call[s].outcome.isError

\* C5: whatever a tool handler throws reaches the caller as a protocol error:
\* an McpError as it is, anything else as McpError InternalError 'Error
\* executing tool: <message>'
C5_EveryExceptionTranslated ==
    \A s \in Slot :
        (call[s].pc = "done" /\ call[s].outcome.kind = "throw") =>
            /\ call[s].outcome.error.class = "McpError"
            /\ call[s].outcome.error.code \in {"MethodNotFound", "InternalError"}

\* the request carries a bearer token
BearerSupplied(h) ==
    h.present /\ h.scheme \in {"Bearer", "bearer", "BEARER"} /\ h.sep /\ h.cred # ""

\* C6: every upstream call of a request is made with the request's bearer
\* token when one was supplied, even if an environment key is configured;
\* with the environment key only when no bearer token was supplied; and with
\* neither, the tool fails with the authentication-required error and no
\* upstream call is made
C6_CredentialPrecedence ==
    \A r \in Slot :
        LET h == http[r].header
            k == env.TIMESHEET_API_TOKEN
        IN  /\ \A j \in DOMAIN call[r].log :
                  LET cl == call[r].log[j].client
                  IN  IF BearerSupplied(h)
                      THEN cl.auth = "oauth2Token" /\ cl.secret = h.cred
                      ELSE cl.auth = "apiKey" /\ cl.secret = k /\ k # Undefined
            /\ ( /\ call[r].pc = "done"
                 /\ call[r].name \in RegisteredTools \ {"auth_configure"}
                 /\ ~BearerSupplied(h)
                 /\ k = Undefined )
                 => /\ call[r].outcome = Thrown(AuthRequired)
                    /\ call[r].log = <<>>

C6_Witness ==
    \E r \in Slot :
        /\ BearerSupplied(http[r].header)
        /\ env.TIMESHEET_API_TOKEN = "env-key"
        /\ Len(call[r].log) > 0
        /\ call[r].log[1].client.auth = "oauth2Token"

\* C7: every POST has a server instance of its own, and whatever interleaving
\* the requests are served in, the client and the token a request's upstream
\* calls use are the ones created for that request
C7_NoCrossRequestSharing ==
    \A r \in Slot :
        /\ http[r].pc # "none" =>
              /\ http[r].inst # 0
              /\ srv[http[r].inst].made
              /\ srv[http[r].inst].oauthToken = extractBearerToken(http[r].header)
              /\ \A q \in Slot \ {r} :
                    http[q].pc # "none" => http[q].inst # http[r].inst
              /\ srv[http[r].inst].client # None =>
                    srv[http[r].inst].client.owner = http[r].inst
        /\ \A j \in DOMAIN call[r].log :
              LET cl == call[r].log[j].client
              IN  /\ cl.owner = http[r].inst
                  /\ cl.auth = "oauth2Token" => cl.secret = Token[r]

C7_Witness ==
    \E r, q \in Slot :
        /\ r # q
        /\ call[r].pc = "await" /\ call[q].pc = "await"
        /\ call[r].log[1].client.secret = Token[r]
        /\ call[q].log[1].client.secret = Token[q]

\* no upstream call appears twice in the log of one invocation
NoDuplicateCall(s) ==
    \A j, k \in DOMAIN call[s].log :
        (j # k) => ~( /\ call[s].log[j].op = call[s].log[k].op
                      /\ call[s].log[j].page = call[s].log[k].page )

\* C8: within one invocation every upstream call is attempted once: the log
\* holds no call twice, and the step that handles a failed call issues no
\* upstream call at all
C8_NoRetry ==
    /\ [](\A s \in Slot : NoDuplicateCall(s))
    /\ [][\A s \in Slot : \A op \in call[s].pending, error \in ApiErrors :
             UpstreamReject(s, op, error) => call'[s].log = call[s].log]_vars

C8_Witness ==
    \E s \in Slot :
        /\ call[s].name = "timer_start"
        /\ call[s].pc = "done"
        /\ call[s].outcome.isError
        /\ Len(call[s].log) = 3

\* ---- statistics
Abs(x) == IF x < 0 THEN -x ELSE x

SumHours(entries) ==
    SumOver([j \in DOMAIN entries |-> entries[j].hours], DOMAIN entries)

Computed == stats.pc = "computed"

\* the seconds of all tasks, and of the tasks that carry a startDateTime
TotalSec == Accumulate(stats.tasks, DOMAIN stats.tasks).totalSec
DatedSec ==
    Accumulate(stats.tasks,
               {i \in DOMAIN stats.tasks : stats.tasks[i].startDateTime # NoDate}
              ).totalSec

\* C9 as stated: for every non-empty task list the dailyHours hours add up
\* to totalHours within 0.01 (one hundredth)
C9_DailySumWithinTolerance ==
    (Computed /\ stats.tasks # <<>>)
        => Abs(SumHours(stats.result.dailyHours) - stats.result.totalHours) <= 1

\* C9 as the code has it: the dailyHours hours add up to the hours of the
\* tasks that carry a startDateTime within 0.005 per dailyHours entry, and
\* totalHours is the hours of all tasks within 0.005 (36 seconds are one
\* hundredth of an hour)
C9_DailySumOfDatedTasks ==
    Computed =>
        /\ Abs(36 * SumHours(stats.result.dailyHours) - DatedSec)
              <= 18 * Len(stats.result.dailyHours)
        /\ Abs(36 * stats.result.totalHours - TotalSec) <= 18

\* every task is dated and the daily roundings still add up to 0.02 more
\* than totalHours
C9_Witness ==
    /\ Computed
    /\ stats.tasks # <<>>
    /\ DatedSec = TotalSec
    /\ \A i \in DOMAIN stats.tasks : stats.tasks[i].startDateTime # NoDate
    /\ SumHours(stats.result.dailyHours) - stats.result.totalHours >= 2

\* C10 as stated: for every non-empty task list the projectBreakdown hours
\* add up to totalHours exactly
C10_ProjectSumEqualsTotal ==
    (Computed /\ stats.tasks # <<>>)
        => SumHours(stats.result.projectBreakdown) = stats.result.totalHours

\* C10 as the code has it: every task is counted in exactly one project, and
\* the projectBreakdown hours add up to totalHours within 0.005 times the
\* number of projects plus one
C10_ProjectSumWithinRounding ==
    Computed =>
        LET projects == stats.result.projectBreakdown
        IN  /\ SumOver([j \in DOMAIN projects |-> projects[j].taskCount],
                       DOMAIN projects) = stats.result.totalTasks
            /\ Abs(36 * SumHours(projects) - TotalSec) <= 18 * Len(projects)
            /\ 2 * Abs(SumHours(projects) - stats.result.totalHours)
                  <= Len(projects) + 1

\* two projects whose rounded hours add up to more than totalHours
C10_Witness ==
    /\ Computed
    /\ Len(stats.result.projectBreakdown) >= 2
    /\ \A j \in DOMAIN stats.result.projectBreakdown :
          stats.result.projectBreakdown[j].hours > 0
    /\ SumHours(stats.result.projectBreakdown) > stats.result.totalHours

\* the dates of the dailyHours entries, in order
DailyDates == [j \in DOMAIN stats.result.dailyHours |-> stats.result.dailyHours[j].date]

\* C11 as stated: for every range and task list, dailyHours has exactly one
\* entry per calendar day from startDate to endDate, in order and without
\* gaps, and no other entry
C11_OneEntryPerDayOfRange ==
    (Computed /\ stats.result.startDate <= stats.result.endDate)
        => /\ Len(stats.result.dailyHours)
                = stats.result.endDate - stats.result.startDate + 1
           /\ \A j \in DOMAIN DailyDates :
                 DailyDates[j] = stats.result.startDate + j - 1

\* C12: weeklyHours is present exactly when the range from startDate to
\* endDate, both included, has more than 14 calendar days
C12_WeeklyIffOver14Days ==
    Computed =>
        ( stats.result.weeklyHours.defined
            <=> stats.result.endDate - stats.result.startDate + 1 > 14 )

\* a range of exactly 15 days, one hour short because of a daylight-saving
\* change, has its weeklyHours
C12_Witness ==
    /\ Computed
    /\ stats.dst = -1
    /\ stats.result.endDate - stats.result.startDate + 1 = 15
    /\ stats.result.weeklyHours.defined

\* the Monday of the ISO week of a calendar day (a Sunday belongs to the week
\* of the Monday six days before it)
IsoMonday(d) == d - ((getDay(d) + 6) % 7)

\* C13 as stated: whenever weeklyHours is defined every weekStart is a
\* Monday, and every dailyHours day is covered by the entry of the Monday of
\* its own ISO week
C13_WeekStartsAreMondays ==
    (Computed /\ stats.result.weeklyHours.defined) =>
        LET weeks == stats.result.weeklyHours.weeks
        IN  /\ \A j \in DOMAIN weeks : getDay(weeks[j].weekStart) = 1
            /\ \A k \in DOMAIN DailyDates :
                  \E j \in DOMAIN weeks : weeks[j].weekStart = IsoMonday(DailyDates[k])

\* the unrounded seconds of a project of the task list, and the position of
\* its first task
ProjectSec(id) ==
    Accumulate(stats.tasks,
               {i \in DOMAIN stats.tasks : projId(stats.tasks[i]) = id}).totalSec
FirstSeen(id) ==
    CHOOSE i \in DOMAIN stats.tasks :
        /\ projId(stats.tasks[i]) = id
        /\ \A j \in DOMAIN stats.tasks : projId(stats.tasks[j]) = id => i <= j

\* C14: projectBreakdown is ordered by the unrounded total seconds of the
\* projects, largest first, and projects with equal seconds stay in the order
\* in which they were first seen
C14_SortedBySecondsStable ==
    Computed =>
        LET projects == stats.result.projectBreakdown
        IN  \A j, k \in DOMAIN projects :
                j < k =>
                    \/ ProjectSec(projects[j].projectId) > ProjectSec(projects[k].projectId)
                    \/ /\ ProjectSec(projects[j].projectId)
                            = ProjectSec(projects[k].projectId)
                       /\ FirstSeen(projects[j].projectId)
                            < FirstSeen(projects[k].projectId)

\* three projects: the one seen last is the largest, the other two have the
\* same seconds
C14_Witness ==
    /\ Computed
    /\ Len(stats.result.projectBreakdown) = 3
    /\ FirstSeen(stats.result.projectBreakdown[1].projectId) = 3
    /\ ProjectSec(stats.result.projectBreakdown[2].projectId) > 0
    /\ ProjectSec(stats.result.projectBreakdown[2].projectId)
          = ProjectSec(stats.result.projectBreakdown[3].projectId)

SumPercentage ==
    SumOver([j \in DOMAIN stats.result.projectBreakdown |->
                stats.result.projectBreakdown[j].percentage],
            DOMAIN stats.result.projectBreakdown)

\* C15 as stated: the percentages of projectBreakdown add up to at most 100,
\* and every percentage is 0 when totalHours is 0
C15_PercentagesAtMost100 ==
    Computed =>
        /\ SumPercentage <= 100
        /\ stats.result.totalHours = 0 =>
              \A j \in DOMAIN stats.result.projectBreakdown :
                  stats.result.projectBreakdown[j].percentage = 0

\* C15 as the code has it: every percentage is 0 when totalHours is 0, and
\* otherwise lies within one half of hours / totalHours * 100, so the sum of
\* the percentages lies within half the number of projects of
\* 100 * (sum of the project hours) / totalHours
C15_PercentagesRounded ==
    Computed =>
        LET projects   == stats.result.projectBreakdown
            totalHours == stats.result.totalHours
        IN  /\ \A j \in DOMAIN projects :
                  /\ totalHours = 0 => projects[j].percentage = 0
                  /\ totalHours > 0 =>
                        Abs(2 * totalHours * projects[j].percentage
                              - 200 * projects[j].hours) <= totalHours
            /\ totalHours > 0 =>
                  Abs(2 * totalHours * SumPercentage - 200 * SumHours(projects))
                      <= Len(projects) * totalHours

\* with totalHours above 0, the percentages of several projects, none of
\* them 0, add up to more than 100
C15_Witness ==
    /\ Computed
    /\ stats.result.totalHours > 0
    /\ Len(stats.result.projectBreakdown) >= 2
    /\ \A j \in DOMAIN stats.result.projectBreakdown :
          stats.result.projectBreakdown[j].percentage > 0
    /\ SumPercentage > 100

Dated(task) == task.startDateTime # NoDate
Undated == {i \in DOMAIN stats.tasks : ~Dated(stats.tasks[i])}

\* the daily and weekly series of the same call without the tasks that lack
\* a startDateTime
DailyWithoutUndated ==
    dailyHours(SelectSeq(stats.tasks, Dated), stats.result.startDate,
               stats.result.endDate, stats.tz)
WeeklyWithoutUndated ==
    weeklyHours(SelectSeq(stats.tasks, Dated), stats.result.startDate,
                stats.result.endDate, stats.tz, stats.dst)

\* C16: a task without startDateTime changes no dailyHours and no
\* weeklyHours entry (both are what they are without it), while the totals
\* count every task and the entry of its project counts it as well
C16_UndatedOnlyInTotals ==
    Computed =>
        LET all == Accumulate(stats.tasks, DOMAIN stats.tasks)
        IN  /\ stats.result.dailyHours = DailyWithoutUndated
            /\ stats.result.weeklyHours = WeeklyWithoutUndated
            /\ stats.result.totalTasks = Len(stats.tasks)
            /\ stats.result.totalHours = toFixed2(all.totalSec)
            /\ stats.result.billableHours = toFixed2(all.billableSec)
            /\ stats.result.nonBillableHours = toFixed2(all.nonBillableSec)
            /\ \A i \in Undated :
                  \E j \in DOMAIN stats.result.projectBreakdown :
                      LET p  == stats.result.projectBreakdown[j]
                          id == projId(stats.tasks[i])
                      IN  /\ p.projectId = id
                          /\ p.hours = toFixed2(ProjectSec(id))
                          /\ p.taskCount
                               = Cardinality({k \in DOMAIN stats.tasks :
                                                 projId(stats.tasks[k]) = id})

\* a list with a dated task and an undated one of an hour, over a range that
\* has weeklyHours
C16_Witness ==
    /\ Computed
    /\ stats.result.weeklyHours.defined
    /\ \E i \in Undated : stats.tasks[i].duration = 3600
    /\ \E i \in DOMAIN stats.tasks :
          Dated(stats.tasks[i]) /\ stats.tasks[i].duration > 0
    /\ stats.result.totalHours > SumHours(stats.result.dailyHours)

ZeroHours(e) ==
    /\ e.hours = 0 /\ e.billableHours = 0
    /\ e.nonBillableHours = 0 /\ e.breakHours = 0

\* C17 as stated: for an empty task list all sums are zero, projectBreakdown
\* is empty, dailyHours has one zero-filled entry for every day from
\* startDate to endDate, and weeklyHours is present only over more than 14 days
C17_EmptyListZeroFilled ==
    (Computed /\ stats.tasks = <<>>
              /\ stats.result.startDate <= stats.result.endDate) =>
        /\ stats.result.totalHours = 0 /\ stats.result.billableHours = 0
        /\ stats.result.nonBillableHours = 0 /\ stats.result.totalBreakHours = 0
        /\ stats.result.totalTasks = 0
        /\ stats.result.projectBreakdown = <<>>
        /\ DailyDates = [j \in 1..(stats.result.endDate - stats.result.startDate + 1)
                            |-> stats.result.startDate + j - 1]
        /\ \A j \in DOMAIN stats.result.dailyHours :
              ZeroHours(stats.result.dailyHours[j])
        /\ stats.result.weeklyHours.defined
              <=> stats.result.endDate - stats.result.startDate + 1 > 14
        /\ \A j \in DOMAIN stats.result.weeklyHours.weeks :
              ZeroHours(stats.result.weeklyHours.weeks[j])

\* ---- HTTP responses
\* the handling of request r ran into an authentication failure: no
\* credential at all, a credential the upstream rejects with 401, or an error
\* of authentication wording in the catch clause of app.post
AuthFailure(r) ==
    \/ /\ call[r].pc = "done"
       /\ \/ call[r].outcome = Thrown(AuthRequired)
          \/ /\ call[r].outcome.kind = "response"
             /\ call[r].outcome.isError
             /\ \E j \in DOMAIN call[r].outcome.text : call[r].outcome.text[j] = "401"
    \/ /\ http[r].error # None
       /\ isAuthError(http[r].error.message)

\* C18 as stated: a POST request whose handling fails with an authentication
\* failure is answered with status 401, a WWW-Authenticate header with the
\* realm and the authorization-server hint, and a JSON-RPC error body that
\* points to the protected-resource metadata document
C18_AuthFailureIs401 ==
    \A r \in Slot :
        (http[r].pc \in {"closed", "failed"} /\ AuthFailure(r)) =>
            /\ http[r].res.status = 401
            /\ http[r].res.wwwAuthenticate # None
            /\ http[r].res.wwwAuthenticate.realm = McpServerUrl
            /\ http[r].res.wwwAuthenticate.authorization_uri
                  = <<ApiBaseUrl, "/oauth2/auth">>
            /\ http[r].res.body.kind = "jsonrpc-error"
            /\ http[r].res.body.protected_resource_metadata
                  = <<McpServerUrl, "/.well-known/oauth-protected-resource">>

\* ---- resources
\* URIs that are malformed or name no known widget component
BadUris ==
    ResourceUris \ {"ui://timesheet/TimerWidget.html", "ui://timesheet/Statistics.html"}

\* C19: reading a malformed URI, or one of an unknown component, fails with
\* the protocol error InvalidRequest, no file read was started, and the
\* server takes the next call
C19_BadUriInvalidRequest ==
    \A s \in Slot :
        (call[s].name = "resources/read" /\ call[s].args \in BadUris) =>
            /\ call[s].pc = "read-done"
            /\ call[s].outcome.kind = "throw"
            /\ call[s].outcome.error.class = "McpError"
            /\ call[s].outcome.error.code = "InvalidRequest"
            /\ call[s].log = <<>>
            /\ srv[call[s].inst].open
            /\ (http[s].pc = "stdio" /\ http[s].served < MaxCalls) =>
                   /\ \A n \in RegisteredTools : ENABLED CallTool(s, n, "object")
                   /\ \A uri \in ResourceUris : ENABLED ReadResource(s, uri)

\* a well-formed URI of an unknown component was read and the server can
\* take another call
C19_Witness ==
    \E s \in Slot :
        /\ call[s].name = "resources/read"
        /\ call[s].args = "ui://timesheet/Nope.html"
        /\ call[s].pc = "read-done"
        /\ call[s].outcome.error.message = <<"Unknown component: ", "Nope">>
        /\ http[s].served < MaxCalls

\* the timer that timer.get returned to a timer_status call
ReportedTimer(s) == call[s].primary.timer

GetAnswered(r) == http[r].pc = "answered"

\* C21 as stated: a GET from a browser (by its Accept and User-Agent headers)
\* is answered with the landing page, a GET from an API client with the 405
\* JSON error, and no GET is answered in any other way
C21_GetLandingPageOr405 ==
    \A r \in Slot :
        GetAnswered(r) =>
            IF wantsBrowser(http[r].accept, http[r].userAgent)
            THEN http[r].res.status = 200 /\ http[r].res.body.kind = "file"
            ELSE http[r].res = MethodNotAllowed

\* ---- response formatters
\* the formatter call is over
FormatDone == call[StdioSlot].pc = "done" /\ call[StdioSlot].name # "resources/read"

\* the object given to the formatter lacks none of the properties the
\* formatter needs: the list itself, the numbers it calls toFixed on, and the
\* names it prints unguarded other than the project title (timer status,
\* projectTitle of a breakdown entry)
RequiredPresent ==
    LET o == call[StdioSlot].args
    IN  CASE call[StdioSlot].name = "formatTimerResponse" -> o.status # Undefined
          [] call[StdioSlot].name = "formatProjectListResponse" -> o.defined
          [] call[StdioSlot].name = "formatStatisticsResponse" ->
                /\ NoNumber \notin StatisticsDereferenced(o)
                /\ NonEmpty(o.projectBreakdown)
                       => o.projectBreakdown.items[1].projectTitle # Undefined
          [] OTHER -> FALSE

\* C22 as stated: for an object in which only optional properties are
\* missing the formatter returns a response and does not throw, and the text
\* shows a neutral default in the place of every missing property, never the
\* missing value itself
C22_OptionalFieldsDefaulted ==
    (FormatDone /\ RequiredPresent) =>
        /\ call[StdioSlot].outcome.kind = "response"
        /\ \A k \in DOMAIN call[StdioSlot].outcome.text :
               call[StdioSlot].outcome.text[k] # Undefined

\* ---- pagination of statistics_get
\* the pages of the tasks.search calls of call c, in the order of the calls
RECURSIVE SearchPages(_)
SearchPages(log) ==
    IF log = <<>> THEN <<>>
    ELSE IF Head(log).op = "tasks.search"
         THEN <<Head(log).page>> \o SearchPages(Tail(log))
         ELSE SearchPages(Tail(log))

\* call s is a statistics_get call whose handler has entered its try block
StatsCall(s) ==
    /\ call[s].name = "statistics_get"
    /\ call[s].pc \in {"await", "done"}
    /\ ~(call[s].pc = "done" /\ call[s].outcome.kind = "throw")

TimerTools == { n \in RegisteredTools : Handlers[n].op \in TimerOps }

\* call s is a timer tool call whose handler has entered its try block
TimerCall(s) == call[s].name \in TimerTools /\ call[s].log # <<>>

\* C24: a timer tool issues its timer call and the profile and settings
\* reads together, before any of them has returned; it answers only after
\* the timer call has returned, and after a successful timer call only when
\* both reads have settled too; the answer is the formatted timer result,
\* with null for each read that failed, exactly when the timer call
\* succeeded, and an isError response when it failed
C24_OutcomeFollowsPrimary ==
    \A s \in Slot :
        TimerCall(s) =>
            LET c == call[s]
                op == Handlers[c.name].op
            IN  /\ Len(c.log) = 3
                /\ <<c.log[1].op, c.log[2].op, c.log[3].op>>
                      = <<op, "profile.getProfile", "settings.get">>
                /\ (c.pc # "done") =>
                      \/ op \in c.pending
                      \/ c.pending \cap {"profile.getProfile", "settings.get"} # {}
                /\ (c.pc = "done") =>
                      /\ op \notin c.pending
                      /\ c.outcome.kind = "response"
                      /\ IF c.primary # None
                         THEN /\ c.pending = {}
                              /\ c.profile \in {"profile", "null"}
                              /\ c.settings \in {"settings", "null"}
                              /\ c.outcome =
                                    formatTimerResponse(
                                        formatCompleteTimerData(c.primary.timer),
                                        c.profile, c.settings)
                              /\ ~c.outcome.isError
                         ELSE c.outcome.isError

\* a timer tool has answered with the timer result although the profile read
\* had failed
C24_Witness ==
    \E s \in Slot :
        /\ TimerCall(s)
        /\ call[s].pc = "done"
        /\ call[s].primary # None
        /\ call[s].profile = "null"
        /\ call[s].settings = "settings"
        /\ call[s].outcome.structured.profile = "null"
        /\ ~call[s].outcome.isError

\* ---- fetch, then create
\* call s is an enhancement tool call whose handler has entered its try block
EnhancementCall(s) == call[s].name \in EnhancementTools /\ call[s].log # <<>>

\* C25: an enhancement tool starts with one timer fetch; once the fetch has
\* returned a timer with a task and a status other than stopped, the handler
\* has issued one create call, with the id of the fetched task, and nothing
\* else; a create call is in the log only after the fetch has returned, and
\* never after a fetch that failed
C25_FetchThenOneCreate ==
    \A s \in Slot :
        EnhancementCall(s) =>
            LET c == call[s]
                create == Handlers[c.name].op
            IN  /\ c.log[1].op = "timer.get"
                /\ Len(c.log) <= 2
                /\ (c.primary # None /\ c.primary.timer.task.id # Undefined
                                     /\ c.primary.timer.status # "stopped") =>
                       /\ Len(c.log) = 2
                       /\ c.log[2].op = create
                       /\ c.log[2].taskId = c.primary.timer.task.id
                /\ Len(c.log) = 2 =>
                       /\ c.log[2].op = create
                       /\ c.primary # None
                       /\ "timer.get" \notin c.pending
                /\ (c.pc = "done" /\ c.primary = None) =>
                       /\ Len(c.log) = 1
                       /\ c.outcome.isError

\* an enhancement tool has finished after fetching a paused timer with a
\* task and creating the item for that task
C25_Witness ==
    \E s \in Slot :
        /\ EnhancementCall(s)
        /\ call[s].pc = "done"
        /\ call[s].primary # None
        /\ call[s].primary.timer.status = "paused"
        /\ Len(call[s].log) = 2
        /\ call[s].log[2].taskId = "task-1"
        /\ ~call[s].outcome.isError

\* ---- the cached upstream client
\* this step is the start of a tool call in slot s
ToolCallStarts(s) ==
    /\ http'[s].served = http[s].served + 1
    /\ call'[s].name \in RegisteredTools

\* C26: the client of a server instance changes only at the start of a tool
\* call; a tool other than auth_configure builds it when there is none
\* (unless no credential is available) and otherwise leaves the cached one
\* in place, and all upstream calls of the call go through it;
\* auth_configure with arguments puts the client built from the supplied
\* key in its place, whatever was there before
C26_ClientCachedUntilConfigured ==
    [][ /\ \A s \in Slot :
              ToolCallStarts(s) =>
                  LET i == call'[s].inst
                      c == call'[s]
                  IN  IF c.name = "auth_configure"
                      THEN IF c.args # Undefined
                           THEN /\ srv'[i].client = NewClient(i, "apiKey", ConfiguredKey)
                                /\ c.outcome.kind = "response"
                           ELSE srv'[i].client = srv[i].client
                      ELSE /\ srv[i].client # None => srv'[i].client = srv[i].client
                           /\ srv[i].client = None =>
                                 (srv'[i].client = None <=> c.outcome = Thrown(AuthRequired))
                           /\ \A k \in DOMAIN c.log : c.log[k].client = srv'[i].client
        /\ \A i \in Inst :
              (srv[i].made /\ srv'[i].client # srv[i].client) =>
                  \E s \in Slot : ToolCallStarts(s) /\ call'[s].inst = i
        /\ \A s \in Slot : \A k \in DOMAIN call'[s].log :
              call'[s].log[k].op # "fs.readFile" =>
                  call'[s].log[k].client = srv'[call'[s].inst].client
      ]_vars

\* a tool call after auth_configure goes through the client of the
\* configured key although the environment holds a key of its own
C26_Witness ==
    \E s \in Slot :
        /\ env.TIMESHEET_API_TOKEN = "env-key"
        /\ call[s].name \in RegisteredTools \ {"auth_configure"}
        /\ call[s].log # <<>>
        /\ call[s].log[1].client = NewClient(call[s].inst, "apiKey", ConfiguredKey)
        /\ srv[call[s].inst].client = NewClient(call[s].inst, "apiKey", ConfiguredKey)

\* ---- weekly entries and daily entries
HourFields == {"hours", "billableHours", "nonBillableHours", "breakHours"}

SumField(entries, f) ==
    SumOver([j \in DOMAIN entries |-> entries[j][f]], DOMAIN entries)

\* the seconds behind each hour field, of the tasks that carry a startDateTime
DatedSums ==
    LET sums == Accumulate(stats.tasks,
                           {i \in DOMAIN stats.tasks :
                               stats.tasks[i].startDateTime # NoDate})
    IN  [ hours            |-> sums.totalSec,
          billableHours    |-> sums.billableSec,
          nonBillableHours |-> sums.nonBillableSec,
          breakHours       |-> sums.breakSec ]

\* C27: when weeklyHours is present, every dailyHours entry belongs to
\* exactly one weekly entry and every weekly entry has a day; for the hours,
\* the billable, the non-billable and the break hours, the weekly entries
\* and the daily entries both add up to the same seconds, each entry within
\* its own rounding of 0.005, so the two sums differ by at most 0.005 times
\* the number of daily and weekly entries
C27_WeeklyPartitionsDaily ==
    (Computed /\ stats.result.weeklyHours.defined) =>
        LET daily  == stats.result.dailyHours
            weekly == stats.result.weeklyHours.weeks
        IN  /\ \A j \in DOMAIN daily :
                  Cardinality({ k \in DOMAIN weekly :
                                  weekly[k].weekStart = weekKey(daily[j].date, stats.tz) })
                     = 1
            /\ \A k \in DOMAIN weekly : \E j \in DOMAIN daily :
                  weekly[k].weekStart = weekKey(daily[j].date, stats.tz)
            /\ \A f \in HourFields :
                  /\ Abs(36 * SumField(weekly, f) - DatedSums[f]) <= 18 * Len(weekly)
                  /\ Abs(36 * SumField(daily, f) - DatedSums[f]) <= 18 * Len(daily)
                  /\ 2 * Abs(SumField(weekly, f) - SumField(daily, f))
                        <= Len(daily) + Len(weekly)

\* two weeks have hours, one of them from more than one day, and the
\* weekly and the daily hours add up to different values
C27_Witness ==
    /\ Computed
    /\ stats.result.weeklyHours.defined
    /\ Cardinality({ k \in DOMAIN stats.result.weeklyHours.weeks :
                       stats.result.weeklyHours.weeks[k].hours > 0 }) >= 2
    /\ Cardinality({ j \in DOMAIN stats.result.dailyHours :
                       stats.result.dailyHours[j].hours > 0 }) >= 3
    /\ SumField(stats.result.weeklyHours.weeks, "hours")
          # SumField(stats.result.dailyHours, "hours")

\* ---- clean-up of a POST request
\* the handler of POST request r has finished: through its try block or
\* through its catch clause
PostFinished(r) == http[r].pc \in {"closed", "failed"}

\* C28 as stated: when the handler of a POST request has finished, on the
\* success path or on the error path, the server instance made for the
\* request (and its transport) is closed
C28_ClosedOnEveryPath ==
    \A r \in Slot :
        PostFinished(r) =>
            /\ srv[http[r].inst].made
            /\ ~srv[http[r].inst].open

\* ---- timer actions of the running view
\* the timer actions whose tool call is outstanding
InFlight == { k \in DOMAIN widget.actions : widget.actions[k].pc = "tool" }

\* the timer actions in progress that were started in the view instance
\* that is mounted now
InProgressHere ==
    { k \in DOMAIN widget.actions :
        widget.actions[k].mounted /\ widget.actions[k].pc # "finished" }

\* C29 as stated: at most one timer-action tool call is in flight at any
\* time
C29_AtMostOneInFlight == Cardinality(InFlight) <= 1

\* what the flag does give: of the timer actions started in the running view
\* that is mounted at most one is in progress, and the flag of that view is
\* set exactly while it is: it is cleared when the action has finished,
\* whether the tool call or the reload failed or not
OneActionPerMountedView ==
    /\ Cardinality(InProgressHere) <= 1
    /\ widget.actionLoading <=> InProgressHere # {}
    /\ Len(widget.actions) <= widget.invoked
    /\ \A k \in DOMAIN widget.actions :
          (widget.actions[k].pc = "finished")
              <=> (widget.actions[k].result \in {"done", "tool failed", "reload failed"})

\* ---- view history
\* C30: the history is never empty and starts with 'timer'; the current view
\* is its last element; navigate(v) followed by goBack gives the history
\* back, and goBack drops the last element only, and nothing when there is
\* one element
C30_HistoryKeepsTimerRoot ==
    /\ widget.history # <<>>
    /\ widget.history[1] = "timer"
    /\ currentView(widget.history) = widget.history[Len(widget.history)]
    /\ \A v \in ViewTypes :
          /\ navigate(widget.history, v) = widget.history \o <<v>>
          /\ goBack(navigate(widget.history, v)) = widget.history
    /\ goBack(widget.history)
          = IF Len(widget.history) = 1 THEN widget.history
            ELSE SubSeq(widget.history, 1, Len(widget.history) - 1)

\* navigate has appended a view to the history, which goBack takes back to
\* the single 'timer'
C30_Witness ==
    /\ Len(widget.history) = 2
    /\ currentView(widget.history) = "note/new"
    /\ goBack(widget.history) = <<"timer">>

====
